---- MODULE Spec2Model ----
(***************************************************************************)
(* IEC61850 sampled values: the circuit-breaker simulation (BreakerModel)  *)
(* with its simulation thread, and the publisher's sample counter.         *)
(*                                                                         *)
(* Every thread is a stack of frames, one frame per active call.  A frame  *)
(* is [m, at, s1, s2, c, c2]: the method, the place in it, and its locals. *)
(* One step of a thread is one access to shared memory (an atomic load,    *)
(* store or exchange, a plain load or store, a mutex acquisition).         *)
(* Times are in milliseconds, currents in amperes.                         *)
(***************************************************************************)
EXTENDS Integers, Sequences, FiniteSets, Bags, TLC

VARIABLES
    state,               \* state_               (atomic)
    locked,              \* locked_              (atomic)
    currentA,            \* currentA_            (atomic)
    targetState,         \* targetState_         (plain)
    transitionDuration,  \* transitionDuration_  (plain)
    sinceStart,          \* steady_clock::now() - transitionStartTime_, saturated
    callback,            \* callback_: the kind of callback registered, "none" if empty
    callbackMutex,       \* callbackMutex_: "free" or the thread that holds it
    stack,               \* per thread, the frames of its active calls
    ret,                 \* the application's last call: method, entry state, result
    definition,          \* definition_
    owed,                \* bag of state changes not yet reported to the callback
    cbError,             \* a callback invocation that matches no state change
    cbLog,               \* what a recording callback has written down
    script,              \* the scenario run and the calls it still has to make
    ticks,               \* simulation ticks completed since the last call returned
    pub,                 \* the publisher: sample counter, sender, frames emitted
    rx,                  \* the subscriber: receive thread, buffer, IedClient's vector
    relay,               \* the distance relay: settings, pickup flags, callback
    diff,                \* the differential relay: settings, callback, last result
    codec,               \* the wire codec: a frame sent, the buffer it is received into
    defCall,             \* the last call that was given a BreakerDefinition, and its outcome
    ptp,                 \* a PtpTimestamp, its TAI bytes and the timestamp read back
    writer,              \* a BufferWriter and its last call of writeUint16At
    reader,              \* a BufferReader: data_, pos_ and its last call
    controlBlock         \* a SampledValueControlBlock: userPriority_ and its last setter call

bvars == <<state, locked, currentA, targetState, transitionDuration, sinceStart>>
cvars == <<callback, callbackMutex>>
vars  == <<state, locked, currentA, targetState, transitionDuration, sinceStart,
           callback, callbackMutex, stack, ret, definition, owed, cbError, cbLog,
           script, ticks, pub, rx, relay, diff, codec, defCall, ptp, writer, reader, controlBlock>>

\* the objects other than the breaker
nonBreakerVars == <<pub, rx, relay, diff, codec, defCall, ptp, writer, reader, controlBlock>>

breakerVars == <<state, locked, currentA, targetState, transitionDuration, sinceStart,
                 callback, callbackMutex, stack, ret, definition, owed, cbError, cbLog,
                 script, ticks>>

----------------------------------------------------------------------------
Max(a, b) == IF a >= b THEN a ELSE b

\* Program constants

\* std::this_thread::sleep_for(std::chrono::milliseconds(10)) of simulationLoop
sleepMs == 10

\* the 0.01 s of one decay step in updateState
decayStepMs == 10

\* BreakerDefinition's default member initialisers
\* (times in milliseconds, resistances in milliohms)
DefaultDefinition ==
    [openTimeMs |-> 50, closeTimeMs |-> 100, resistanceMilliOhm |-> 1,
     maxCurrentA |-> 1000, voltageRatingV |-> 400, powerRatingW |-> 400000,
     arcDurationMs |-> 20, arcVoltageV |-> 50, arcResistanceMilliOhm |-> 100,
     contactGapMm |-> 10, dielectricStrengthKVpm |-> 3]

\* a valid definition of a fast breaker, as BreakerModel::create(definition) takes
FastDefinition ==
    [DefaultDefinition EXCEPT !.openTimeMs = 10, !.closeTimeMs = 20, !.arcDurationMs = 10]

----------------------------------------------------------------------------
\* Bounds of the model

\* how far past the longest transition time the elapsed time is told apart
ElapsedSlackTicks == 0

\* simulation ticks counted after a call returned
MaxTicks == 2

ElapsedCap == Max(definition.openTimeMs, definition.closeTimeMs)
              + ElapsedSlackTicks * sleepMs

\* the currents the application sets
Currents == {-1500, 500}

BreakerState == {"OPEN", "CLOSED", "OPENING", "CLOSING", "LOCKED_OPEN", "LOCKED_CLOSED"}

Threads == {"app", "sim"}

\* what a registered callback does: only look, write the pair down, or call
\* back into the breaker
ReentrantCalls == {"trip", "unlock"}

CallbackKinds == {"observe", "record"} \cup ReentrantCalls

Abs(x) == IF x < 0 THEN -x ELSE x

Min(a, b) == IF a <= b THEN a ELSE b

----------------------------------------------------------------------------
\* Frames and stacks

Frame(m, at) == [m |-> m, at |-> at, s1 |-> "-", s2 |-> "-", c |-> 0, c2 |-> 0]

Top(t) == stack[t][Len(stack[t])]

Rest(t) == SubSeq(stack[t], 1, Len(stack[t]) - 1)

In(t, m, at) == stack[t] # <<>> /\ Top(t).m = m /\ Top(t).at = at

\* a frame whose place is "ret" has nothing left to do once its callee returns
RECURSIVE Unwind(_)
Unwind(s) == IF s # <<>> /\ s[Len(s)].at = "ret"
             THEN Unwind(SubSeq(s, 1, Len(s) - 1))
             ELSE s

Return(t) == Unwind(Rest(t))

Goto(t, at) == Rest(t) \o <<[Top(t) EXCEPT !.at = at]>>

Call(t, at, f) == Rest(t) \o <<[Top(t) EXCEPT !.at = at], f>>

----------------------------------------------------------------------------
\* What an observer of the callback sees: every change of state_ is owed one
\* report; a step that invokes the callback, or finds none registered, pays
\* one.  A call and the ticks after it are counted for the timing claims.

\* ticks.phase: "off" not counted, "call" a call is under way, "started" the
\* call returned during a tick, "count" n whole ticks ended since it returned
Ticks(phase, n) == [phase |-> phase, n |-> n]

\* ticks.phase "timed": n the milliseconds slept since the application's last
\* call began, call the milliseconds slept since the call began that last
\* made the state OPENING or CLOSING; both saturate like sinceStart
Timed(n, call) == [phase |-> "timed", n |-> n, call |-> call]

\* the thread that invokes the callback in this step, or finds none registered
Reports(t) == In(t, "transitionToState", "lock") /\ stack'[t] # stack[t]
              /\ (stack'[t] = <<>> \/ stack'[t][1].m # "terminate")

Observe ==
    LET plus == IF state' # state
                THEN owed (+) SetToBag({<<state, state'>>})
                ELSE owed
        appReturns == stack["app"] # <<>> /\ stack'["app"] = <<>>
        appCalls == stack["app"] = <<>> /\ stack'["app"] # <<>>
        tickEnds == Len(stack["sim"]) > 1 /\ Len(stack'["sim"]) = 1
        sleeps == In("sim", "simulationLoop", "sleep") /\ stack'["sim"] # stack["sim"]
        starts == state' # state /\ state' \in {"OPENING", "CLOSING"}
    IN  /\ IF \E t \in Threads : Reports(t)
           THEN LET t == CHOOSE u \in Threads : Reports(u)
                    pair == <<Top(t).s1, Top(t).s2>>
                IN  /\ owed' = plus (-) SetToBag({pair})
                    /\ cbError' = (cbError \/ (callback # "none" /\ ~BagIn(pair, plus)))
           ELSE /\ owed' = plus
                /\ cbError' = cbError
        /\ ticks' = CASE ticks.phase = "off" -> ticks
                      [] ticks.phase = "timed" ->
                             Timed(IF appCalls THEN 0
                                   ELSE IF sleeps THEN Min(ticks.n + sleepMs, ElapsedCap)
                                   ELSE ticks.n,
                                   IF starts THEN ticks.n
                                   ELSE IF sleeps THEN Min(ticks.call + sleepMs, ElapsedCap)
                                   ELSE ticks.call)
                      [] appCalls -> Ticks("call", 0)
                      [] appReturns -> IF Len(stack["sim"]) > 1
                                       THEN Ticks("started", 0)
                                       ELSE Ticks("count", 0)
                      [] tickEnds /\ ticks.phase = "started" -> Ticks("count", 0)
                      [] tickEnds /\ ticks.phase = "count" ->
                             Ticks("count", Min(ticks.n + 1, MaxTicks))
                      [] OTHER -> ticks

----------------------------------------------------------------------------
\* BreakerModel::transitionToState

TransitionFrame(newState) == [Frame("transitionToState", "exchange") EXCEPT !.s2 = newState]

\* the first frame of a call of method m; c is its current, k its callback or
\* the state waited for
StartFrame(m, c, k) ==
    CASE m \in {"open", "close"} -> Frame(m, "locked")
      [] m \in {"lock", "unlock", "trip"} -> Frame(m, "store")
      [] m = "setCurrent" -> [Frame(m, "store") EXCEPT !.c = c]
      [] m = "onStateChange" -> [Frame(m, "lock") EXCEPT !.s1 = k]
      [] m = "getState" -> [Frame(m, "load") EXCEPT !.s1 = k]

NoCall == [m |-> "-", entry |-> "-", c |-> 0, v |-> "-"]

\* the top frame returns value v; when that ends the application's call, the
\* call is written down with the state it was entered in
Finish(t, v) ==
    /\ stack' = [stack EXCEPT ![t] = Return(t)]
    /\ ret' = IF t = "app" /\ Return(t) = <<>>
              THEN [m |-> stack[t][1].m, entry |-> stack[t][1].s2,
                    c |-> stack[t][1].c, v |-> v]
              ELSE ret

Jump(t, s) == stack' = [stack EXCEPT ![t] = s] /\ UNCHANGED ret

transitionToState(t) ==
    /\ stack[t] # <<>> /\ Top(t).m = "transitionToState"
    /\ \/ /\ Top(t).at = "exchange"
          /\ state' = Top(t).s2
          /\ IF state # Top(t).s2
             THEN Jump(t, Rest(t) \o <<[Top(t) EXCEPT !.at = "lock", !.s1 = state]>>)
             ELSE Finish(t, "void")
          /\ UNCHANGED <<locked, currentA, targetState, transitionDuration, sinceStart,
                         cvars, cbLog, script, definition, nonBreakerVars>>
       \/ /\ Top(t).at = "lock"
          /\ callbackMutex = "free"
          /\ callback = "none"
          /\ Finish(t, "void")
          /\ UNCHANGED <<bvars, cvars, cbLog, script, definition, nonBreakerVars>>
       \/ /\ Top(t).at = "lock"
          /\ callbackMutex = "free"
          /\ callback # "none"
          /\ callbackMutex' = t
          /\ cbLog' = IF callback = "record"
                      THEN Append(cbLog, <<Top(t).s1, Top(t).s2>>)
                      ELSE cbLog
          /\ IF callback \in ReentrantCalls
             THEN Jump(t, Call(t, "unlock", StartFrame(callback, 0, callback)))
             ELSE Jump(t, Goto(t, "unlock"))
          /\ UNCHANGED <<bvars, callback, script, definition, nonBreakerVars>>
       \/ /\ Top(t).at = "unlock"
          /\ callbackMutex' = "free"
          /\ Finish(t, "void")
          /\ UNCHANGED <<bvars, callback, cbLog, script, definition, nonBreakerVars>>
    /\ Observe

----------------------------------------------------------------------------
\* BreakerModel::open and BreakerModel::close

openRejects(currentState) == currentState \in {"OPEN", "OPENING"}

closeRejectsOnlyClosed(currentState) == currentState = "CLOSED"

closeRejects(currentState) == currentState \in {"CLOSED", "CLOSING"}

Command(t, m, rejects, via, target, duration) ==
    /\ stack[t] # <<>> /\ Top(t).m = m
    /\ \/ /\ Top(t).at = "locked"
          /\ IF locked THEN Finish(t, "false") ELSE Jump(t, Goto(t, "state"))
          /\ UNCHANGED bvars
       \/ /\ Top(t).at = "state"
          /\ IF rejects
             THEN Finish(t, "false")
             ELSE Jump(t, Call(t, "target", TransitionFrame(via)))
          /\ UNCHANGED bvars
       \/ /\ Top(t).at = "target"
          /\ targetState' = target
          /\ Jump(t, Goto(t, "duration"))
          /\ UNCHANGED <<state, locked, currentA, transitionDuration, sinceStart>>
       \/ /\ Top(t).at = "duration"
          /\ transitionDuration' = duration
          /\ Jump(t, Goto(t, "start"))
          /\ UNCHANGED <<state, locked, currentA, targetState, sinceStart>>
       \/ /\ Top(t).at = "start"
          /\ sinceStart' = 0
          /\ Finish(t, "true")
          /\ UNCHANGED <<state, locked, currentA, targetState, transitionDuration>>
    /\ UNCHANGED <<cvars, cbLog, script, definition, nonBreakerVars>>
    /\ Observe

open(t) == Command(t, "open", openRejects(state), "OPENING", "OPEN", definition.openTimeMs)

close(t) == Command(t, "close", closeRejects(state), "CLOSING", "CLOSED", definition.closeTimeMs)

----------------------------------------------------------------------------
\* BreakerModel::lock and BreakerModel::unlock

lockedStateOf(currentState) ==
    CASE currentState = "OPEN" -> "LOCKED_OPEN"
      [] currentState = "CLOSED" -> "LOCKED_CLOSED"
      [] OTHER -> currentState

unlockedStateOfResuming(currentState) ==
    CASE currentState = "LOCKED_OPEN" -> "OPENING"
      [] currentState = "LOCKED_CLOSED" -> "CLOSING"
      [] OTHER -> currentState

unlockedStateOf(currentState) ==
    CASE currentState = "LOCKED_OPEN" -> "OPEN"
      [] currentState = "LOCKED_CLOSED" -> "CLOSED"
      [] OTHER -> currentState

Latch(t, m, value, next) ==
    /\ stack[t] # <<>> /\ Top(t).m = m
    /\ \/ /\ Top(t).at = "store"
          /\ locked' = value
          /\ Jump(t, Goto(t, "state"))
       \/ /\ Top(t).at = "state"
          /\ IF next # state
             THEN Jump(t, Call(t, "ret", TransitionFrame(next)))
             ELSE Finish(t, "void")
          /\ UNCHANGED locked
    /\ UNCHANGED <<state, currentA, targetState, transitionDuration, sinceStart,
                   cvars, cbLog, script, definition, nonBreakerVars>>
    /\ Observe

lock(t) == Latch(t, "lock", TRUE, lockedStateOf(state))

unlock(t) == Latch(t, "unlock", FALSE, unlockedStateOf(state))

----------------------------------------------------------------------------
\* BreakerModel::trip and BreakerModel::setCurrent

trip(t) ==
    /\ stack[t] # <<>> /\ Top(t).m = "trip"
    /\ \/ /\ Top(t).at = "store"
          /\ locked' = FALSE
          /\ Jump(t, Call(t, "current", TransitionFrame("OPEN")))
          /\ UNCHANGED currentA
       \/ /\ Top(t).at = "current"
          /\ currentA' = 0
          /\ Finish(t, "void")
          /\ UNCHANGED locked
    /\ UNCHANGED <<state, targetState, transitionDuration, sinceStart,
                   cvars, cbLog, script, definition, nonBreakerVars>>
    /\ Observe

exceedsMaxCurrent(current) == Abs(current) > definition.maxCurrentA

setCurrent(t) ==
    /\ In(t, "setCurrent", "store")
    /\ currentA' = Top(t).c
    /\ IF exceedsMaxCurrent(Top(t).c)
       THEN Jump(t, Call(t, "ret", StartFrame("trip", 0, "-")))
       ELSE Finish(t, "void")
    /\ UNCHANGED <<state, locked, targetState, transitionDuration, sinceStart,
                   cvars, cbLog, script, definition, nonBreakerVars>>
    /\ Observe

----------------------------------------------------------------------------
\* BreakerModel::onStateChange and BreakerModel::getState

onStateChange(t) ==
    /\ In(t, "onStateChange", "lock")
    /\ callbackMutex = "free"
    /\ callback' = Top(t).s1
    /\ Finish(t, "void")
    /\ UNCHANGED <<bvars, callbackMutex, cbLog, script, definition, nonBreakerVars>>
    /\ Observe

\* the application polls getState() until it returns the state it waits for
getState(t) ==
    /\ In(t, "getState", "load")
    /\ state = Top(t).s1
    /\ Finish(t, state)
    /\ UNCHANGED <<bvars, cvars, cbLog, script, definition, nonBreakerVars>>
    /\ Observe

\* std::mutex::lock by the thread that holds the mutex is undefined: the
\* thread blocks for ever (no step), or the lock throws std::system_error,
\* which nothing catches, and the process is terminated
WaitsForMutex(t) == In(t, "transitionToState", "lock") \/ In(t, "onStateChange", "lock")

relock(t) ==
    /\ WaitsForMutex(t)
    /\ callbackMutex = t
    /\ stack' = [u \in Threads |-> <<Frame("terminate", "end")>>]
    /\ UNCHANGED <<bvars, cvars, ret, cbLog, script, definition, nonBreakerVars>>
    /\ Observe

----------------------------------------------------------------------------
\* BreakerModel::updateState and BreakerModel::simulationLoop

timerExpired(elapsed, duration) == elapsed >= duration

\* arcDecayRate * 0.01, with arcDecayRate = current / arcDurationSec
arcDecay(current) == (current * decayStepMs) \div definition.arcDurationMs

\* after the timer block: the arc decay is looked at only for OPENING
AfterTimer(t) ==
    IF Top(t).s1 = "OPENING" THEN Jump(t, Goto(t, "decay")) ELSE Finish(t, "void")

updateState(t) ==
    /\ stack[t] # <<>> /\ Top(t).m = "updateState"
    /\ \/ /\ Top(t).at = "state"
          /\ IF state \in {"OPENING", "CLOSING"}
             THEN Jump(t, Rest(t) \o <<[Top(t) EXCEPT !.at = "elapsed", !.s1 = state]>>)
             ELSE Finish(t, "void")
          /\ UNCHANGED currentA
       \/ /\ Top(t).at = "elapsed"
          /\ IF timerExpired(sinceStart, transitionDuration)
             THEN Jump(t, Goto(t, "target"))
             ELSE AfterTimer(t)
          /\ UNCHANGED currentA
       \/ /\ Top(t).at = "target"
          /\ Jump(t, Call(t, "clear", TransitionFrame(targetState)))
          /\ UNCHANGED currentA
       \/ /\ Top(t).at = "clear"
          /\ currentA' = IF targetState = "OPEN" THEN 0 ELSE currentA
          /\ AfterTimer(t)
       \/ /\ Top(t).at = "decay"
          /\ IF currentA > 0 THEN Jump(t, Goto(t, "rate")) ELSE Finish(t, "void")
          /\ UNCHANGED currentA
       \/ /\ Top(t).at = "rate"
          /\ Jump(t, Rest(t) \o <<[Top(t) EXCEPT !.at = "new", !.c = arcDecay(currentA)]>>)
          /\ UNCHANGED currentA
       \/ /\ Top(t).at = "new"
          /\ Jump(t, Rest(t) \o <<[Top(t) EXCEPT !.at = "store",
                                                 !.c2 = Max(0, currentA - Top(t).c)]>>)
          /\ UNCHANGED currentA
       \/ /\ Top(t).at = "store"
          /\ currentA' = Top(t).c2
          /\ Finish(t, "void")
    /\ UNCHANGED <<state, locked, targetState, transitionDuration, sinceStart,
                   cvars, cbLog, script, definition, nonBreakerVars>>
    /\ Observe

simulationLoop(t) ==
    /\ stack[t] # <<>> /\ Top(t).m = "simulationLoop"
    /\ \/ /\ Top(t).at = "run"
          /\ Jump(t, Call(t, "sleep", Frame("updateState", "state")))
          /\ UNCHANGED sinceStart
       \/ /\ Top(t).at = "sleep"
          /\ sinceStart' = Min(sinceStart + sleepMs, ElapsedCap)
          /\ Jump(t, Goto(t, "run"))
    /\ UNCHANGED <<state, locked, currentA, targetState, transitionDuration,
                   cvars, cbLog, script, definition, nonBreakerVars>>
    /\ Observe

----------------------------------------------------------------------------
\* IedServer: start, stop, run, updateSampledValue and its destruction.
\* pub.pc is the place of each calling thread inside start() or stop();
\* pub.threads counts the cadence threads that have not left run();
\* pub.joinable is senderThread_.joinable(); pub.process tells whether the
\* process is alive, and how it ended otherwise.

\* uint16_t: the static std::atomic<uint16_t> smpCnt wraps at 2^16
CounterModulus == 65536

VALUES_PER_ASDU == 8

\* calls of updateSampledValue in one run
MaxCalls == 4

\* how many calls before the counter wraps a run may begin
WrapMargin == 2

\* calls of start() and stop() in one run
MaxOps == 3

\* the names of the control blocks published; "X" is a name of one character
SvcbNames == {"SV01", "SV02", "X"}

\* the threads that call into the publisher
Callers == {"c1", "c2"}

Thrown(fault) ==
    CASE fault = "sendto" -> "runtime_error"
      [] fault = "mac" -> "invalid_argument"
      [] OTHER -> "nothing"

\* catch (const std::exception& e)
catches(exception) ==
    exception \in {"runtime_error", "invalid_argument", "out_of_range"}

isValid(asdu) ==
    Len(asdu.svID) > 0 /\ Len(asdu.svID) >= 2 /\ asdu.size = VALUES_PER_ASDU

\* the frame written by sendASDU carries asdu.smpCnt; of the frames emitted
\* for a control block the last two counts are kept
sendASDU(svcb, asdu) ==
    LET frames == Append(pub.emitted[svcb], asdu.smpCnt)
    IN  IF Len(frames) > 2 THEN Tail(frames) ELSE frames

PubAlive == pub.process = "alive"

PubAt(c, at) == PubAlive /\ pub.pc[c] = at

PubGoto(c, at) == [pub EXCEPT !.pc[c] = at]

\* a caller enters start() or stop()
enter(c) ==
    /\ PubAt(c, "idle")
    /\ pub.ops < MaxOps
    /\ \E m \in {"start", "stop"} :
          pub' = [pub EXCEPT !.pc[c] = IF m = "start" THEN "start.running"
                                                      ELSE "stop.running",
                             !.ops = pub.ops + 1]
    /\ UNCHANGED <<breakerVars, rx, relay, diff, codec, defCall, ptp, writer, reader, controlBlock>>

start(c) ==
    /\ \/ /\ PubAt(c, "start.running")
          /\ pub' = PubGoto(c, IF pub.running THEN "idle" ELSE "start.sender")
       \/ /\ PubAt(c, "start.sender")
          /\ \/ pub' = [PubGoto(c, "start.store") EXCEPT !.sender = TRUE]
             \/ /\ ~pub.sender     \* EthernetNetworkSender::create throws
                /\ pub' = [PubGoto(c, "idle") EXCEPT !.running = FALSE]
       \/ /\ PubAt(c, "start.store")
          /\ pub' = [PubGoto(c, "start.thread") EXCEPT !.running = TRUE]
       \/ /\ PubAt(c, "start.thread")
          /\ pub' = IF pub.joinable
                    THEN [pub EXCEPT !.threads = pub.threads + 1,
                                     !.process = "reassigned"]
                    ELSE [PubGoto(c, "idle") EXCEPT !.threads = pub.threads + 1,
                                                    !.joinable = TRUE]
    /\ UNCHANGED <<breakerVars, rx, relay, diff, codec, defCall, ptp, writer, reader, controlBlock>>

stop(c) ==
    /\ \/ /\ PubAt(c, "stop.running")
          /\ pub' = PubGoto(c, IF pub.running THEN "stop.store" ELSE "idle")
       \/ /\ PubAt(c, "stop.store")
          /\ pub' = [PubGoto(c, "stop.joinable") EXCEPT !.running = FALSE]
       \/ /\ PubAt(c, "stop.joinable")
          /\ pub' = PubGoto(c, IF pub.joinable THEN "stop.join" ELSE "idle")
       \/ /\ PubAt(c, "stop.join")     \* join() returns once the thread has left
          /\ pub.threads = 0 \/ ~pub.joinable    \* run(), or throws and is logged
          /\ pub' = [PubGoto(c, "idle") EXCEPT !.joinable = FALSE]
    /\ UNCHANGED <<breakerVars, rx, relay, diff, codec, defCall, ptp, writer, reader, controlBlock>>

\* a cadence thread finds running_ false and leaves run()
run ==
    /\ PubAlive
    /\ pub.threads > 0
    /\ ~pub.running
    /\ pub' = [pub EXCEPT !.threads = pub.threads - 1]
    /\ UNCHANGED <<breakerVars, rx, relay, diff, codec, defCall, ptp, writer, reader, controlBlock>>

\* the last owner lets go of the IedServer: its members are destroyed, and
\* the destructor of a joinable std::thread calls std::terminate
destroy ==
    /\ PubAlive
    /\ \A c \in Callers : pub.pc[c] = "idle"
    /\ pub' = [pub EXCEPT !.process = IF pub.joinable THEN "unjoined" ELSE "destroyed"]
    /\ UNCHANGED <<breakerVars, rx, relay, diff, codec, defCall, ptp, writer, reader, controlBlock>>

updateSampledValue(svcb, size) ==
    /\ PubAlive
    /\ pub.calls < MaxCalls
    \* what goes wrong inside sendASDU: nothing, sendto() fails in sendFrame
    \* (std::runtime_error), the multicast address of the control block does not
    \* parse (std::invalid_argument)
    /\ \E fault \in {"none", "sendto", "mac"} :
         LET asdu == [svID |-> svcb, smpCnt |-> pub.smpCnt, size |-> size]
             called == [pub EXCEPT !.calls = pub.calls + 1]
             counted == [called EXCEPT !.smpCnt = (pub.smpCnt + 1) % CounterModulus]
             logged == [counted EXCEPT !.outcome = "logged"]
             sound == isValid(asdu) /\ pub.sender /\ fault = "none"
             out == IF size = 0 /\ ~pub.ndebug
                      THEN [called EXCEPT !.process = "assert", !.outcome = "aborted"]
                    ELSE IF asdu.size # VALUES_PER_ASDU THEN logged
                    ELSE IF ~isValid(asdu) THEN logged
                    ELSE IF ~pub.sender THEN logged
                    ELSE IF fault = "none"
                      THEN [counted EXCEPT !.emitted[svcb] = sendASDU(svcb, asdu),
                                           !.outcome = "sent"]
                    ELSE IF catches(Thrown(fault)) THEN logged
                    ELSE [counted EXCEPT !.outcome = "threw"]
         IN  pub' = [out EXCEPT !.lost = pub.lost \/ (sound /\ out.outcome # "sent")]
    /\ UNCHANGED <<breakerVars, rx, relay, diff, codec, defCall, ptp, writer, reader, controlBlock>>

\* the publisher before IedServer::start(): no sender, nothing emitted; ndebug
\* tells whether the build defines NDEBUG
InitPublisher(count, ndebug) ==
        pub = [smpCnt |-> count, sender |-> FALSE, calls |-> 0,
               emitted |-> [cb \in SvcbNames |-> <<>>],
               running |-> FALSE, joinable |-> FALSE, threads |-> 0,
               pc |-> [c \in Callers |-> "idle"], ops |-> 0,
               process |-> "alive", ndebug |-> ndebug,
               outcome |-> "none", lost |-> FALSE]

----------------------------------------------------------------------------
\* EthernetNetworkReceiver and IedClient. rx.pc is the place of the receive
\* thread in the loop of the lambda of start(), rx.user the place of the thread
\* that calls IedClient::receiveSampledValues and stop(). A frame is known by
\* the number n of its arrival, which it carries as sample count, as dataset
\* and as timestamp. The receive buffer is one vector reused for every frame:
\* recv() overwrites its first len bytes and leaves the rest.

\* frames arriving in one run
MaxFrames == 2

\* calls of receiveSampledValues in one run
MaxDrains == 2

\* constexpr size_t BUFFER_SIZE = 1500
BUFFER_SIZE == 1500

MAX_ASDUS_PER_MESSAGE == 8

\* constexpr size_t MIN_SV_FRAME_SIZE = 14 + 8
MIN_SV_FRAME_SIZE == 14 + 8

\* the offsets at which the fields of an untagged frame end
EtherTypeEnd == 12 + 2
NumASDUsEnd == EtherTypeEnd + 8 + 1
SvIDEnd == NumASDUsEnd + 64
SynchEnd == SvIDEnd + 2 + 4 + 1
DataSetEnd == SynchEnd + 8 * VALUES_PER_ASDU
TimestampEnd == DataSetEnd + 8

EthFrame(len, etherType, numASDUs, svID) ==
    [len |-> len, etherType |-> etherType, numASDUs |-> numASDUs, svID |-> svID]

\* the frames that arrive: a whole sampled-value frame, one cut before the
\* timestamp, one cut before the dataset, one cut after the SV header, two
\* shorter than an SV frame, and whole frames with another EtherType, with a
\* wrong numASDUs and with an svID of one character
Frames ==
    { EthFrame(TimestampEnd, "SV", 1, "SV01"),
      EthFrame(DataSetEnd, "SV", 1, "SV01"),
      EthFrame(SynchEnd, "SV", 1, "SV01"),
      EthFrame(MIN_SV_FRAME_SIZE, "SV", 1, "SV01"),
      EthFrame(EtherTypeEnd, "SV", 1, "SV01"),
      EthFrame(10, "SV", 1, "SV01"),
      EthFrame(TimestampEnd, "IPv4", 1, "SV01"),
      EthFrame(TimestampEnd, "SV", 0, "SV01"),
      EthFrame(TimestampEnd, "SV", 9, "SV01"),
      EthFrame(TimestampEnd, "SV", 1, "X") }

\* std::vector<uint8_t> buffer(BUFFER_SIZE): all zero
ZeroBuffer ==
    [etherType |-> "zero", numASDUs |-> 0, svID |-> "", smpCnt |-> 0,
     dataSet |-> 0, timestamp |-> 0]

\* recv(socket, buffer.data(), buffer.size(), 0) for the n-th frame: the
\* fields inside the first frame.len bytes are the frame's, the others stay
recv(buffer, frame, n) ==
    [etherType |-> IF frame.len >= EtherTypeEnd THEN frame.etherType ELSE buffer.etherType,
     numASDUs  |-> IF frame.len >= NumASDUsEnd THEN frame.numASDUs ELSE buffer.numASDUs,
     svID      |-> IF frame.len >= SvIDEnd THEN frame.svID ELSE buffer.svID,
     smpCnt    |-> IF frame.len >= SynchEnd THEN n ELSE buffer.smpCnt,
     dataSet   |-> IF frame.len >= DataSetEnd THEN n ELSE buffer.dataSet,
     timestamp |-> IF frame.len >= TimestampEnd THEN n ELSE buffer.timestamp]

NullOpt == [has |-> FALSE]

Some(asdu) == [has |-> TRUE, value |-> asdu]

\* BufferReader::remaining() of the reader made from the whole buffer
remaining(pos) == IF BUFFER_SIZE > pos THEN BUFFER_SIZE - pos ELSE 0

parseASDU(buffer, length) ==
    IF length < MIN_SV_FRAME_SIZE THEN NullOpt
    ELSE IF buffer.etherType # "SV" THEN NullOpt
    ELSE IF buffer.numASDUs = 0 \/ buffer.numASDUs > MAX_ASDUS_PER_MESSAGE THEN NullOpt
    ELSE LET size == Min(VALUES_PER_ASDU, remaining(SynchEnd) \div 8)
             asdu == [svID |-> buffer.svID, smpCnt |-> buffer.smpCnt, size |-> size,
                      dataSet |-> buffer.dataSet,
                      timestamp |-> IF remaining(SynchEnd + 8 * size) >= 8
                                      THEN buffer.timestamp ELSE 0]
         IN  IF size # VALUES_PER_ASDU THEN NullOpt
             ELSE IF ~isValid(asdu) THEN NullOpt
             ELSE Some(asdu)

has_valueNever(asduOpt) == FALSE

has_valueAlways(asduOpt) == TRUE

has_value(asduOpt) == asduOpt.has

\* std::optional::value()
value(asduOpt) == IF asduOpt.has THEN asduOpt.value ELSE "bad_optional_access"

RxAlive == rx.process = "alive"

lock_guardAbsent(mutex) == TRUE

\* std::lock_guard<std::mutex> lock(receivedMutex_) is passed when the mutex
\* is free
lock_guard(mutex) == mutex = "free"

\* the thread is inside recv() and the n-th frame arrives
receive(frame) ==
    /\ RxAlive
    /\ rx.pc = "recv"
    /\ rx.arrived < MaxFrames
    /\ LET n == rx.arrived + 1
           buffer == recv(rx.buffer, frame, n)
           asduOpt == IF frame.len < 14 THEN NullOpt ELSE parseASDU(buffer, frame.len)
           got == [rx EXCEPT !.arrived = n, !.buffer = buffer, !.len = frame.len]
       IN  rx' = IF frame.len >= 14 /\ has_value(asduOpt)
                   THEN [got EXCEPT !.pc = "callback", !.asduOpt = asduOpt,
                                    !.parsed = Append(rx.parsed, [asdu |-> value(asduOpt), at |-> n])]
                   ELSE [got EXCEPT !.pc = "check", !.asduOpt = NullOpt,
                                    !.dropped = n,
                                    !.parsed = IF asduOpt.has
                                                 THEN Append(rx.parsed, [asdu |-> value(asduOpt), at |-> n])
                                                 ELSE rx.parsed]
    /\ UNCHANGED <<breakerVars, pub, relay, diff, codec, defCall, ptp, writer, reader, controlBlock>>

\* while (running_.load())
loop ==
    /\ RxAlive
    /\ rx.pc = "check"
    /\ rx' = [rx EXCEPT !.pc = IF rx.running THEN "recv" ELSE "done"]
    /\ UNCHANGED <<breakerVars, pub, relay, diff, codec, defCall, ptp, writer, reader, controlBlock>>

\* callback(asduOpt.value())
invoke ==
    /\ RxAlive
    /\ rx.pc = "callback"
    /\ LET called == [rx EXCEPT !.delivered = Append(rx.delivered,
                                     [asdu |-> value(rx.asduOpt), at |-> rx.arrived])]
       IN  CASE rx.callback = "store" ->
                  /\ lock_guard(rx.receivedMutex)
                  /\ rx' = [called EXCEPT !.pc = "check",
                                !.receivedASDUs = Append(rx.receivedASDUs, value(rx.asduOpt)),
                                !.appended = Append(rx.appended, value(rx.asduOpt))]
            [] rx.callback = "record" ->
                  rx' = [called EXCEPT !.pc = "check"]
            [] rx.callback = "throws" ->
                  \* the exception leaves the thread's function
                  rx' = [called EXCEPT !.pc = "thrown", !.process = "terminate"]
    /\ UNCHANGED <<breakerVars, pub, relay, diff, codec, defCall, ptp, writer, reader, controlBlock>>

\* IedClient::receiveSampledValues
receiveSampledValues ==
    /\ RxAlive
    /\ \/ /\ rx.user = "idle"
          /\ rx.drains < MaxDrains
          /\ rx' = [rx EXCEPT !.user = "drain.lock", !.drains = rx.drains + 1]
       \/ /\ rx.user = "drain.lock"
          /\ lock_guard(rx.receivedMutex)
          /\ rx' = [rx EXCEPT !.user = "drain.move", !.receivedMutex = "user"]
       \/ /\ rx.user = "drain.move"
          /\ rx' = [rx EXCEPT !.user = "drain.clear", !.result = rx.receivedASDUs,
                              !.receivedASDUs = <<>>]
       \/ /\ rx.user = "drain.clear"
          /\ rx' = [rx EXCEPT !.user = "drain.return", !.receivedASDUs = <<>>]
       \/ /\ rx.user = "drain.return"
          /\ rx' = [rx EXCEPT !.user = "idle", !.receivedMutex = "free",
                              !.returned = rx.returned \o rx.result,
                              !.result = <<>>,
                              !.left = Max(rx.left, Len(rx.receivedASDUs))]
    /\ UNCHANGED <<breakerVars, pub, relay, diff, codec, defCall, ptp, writer, reader, controlBlock>>

\* EthernetNetworkReceiver::stop
stopReceiver ==
    /\ RxAlive
    /\ \/ /\ rx.user = "idle"
          /\ rx.running
          /\ rx' = [rx EXCEPT !.user = "stop.join", !.running = FALSE]
       \/ /\ rx.user = "stop.join"
          /\ rx.pc = "done"
          /\ rx' = [rx EXCEPT !.user = "idle", !.joinable = FALSE]
    /\ UNCHANGED <<breakerVars, pub, relay, diff, codec, defCall, ptp, writer, reader, controlBlock>>

\* the subscriber after start(callback) has returned
InitReceiver(cb) ==
    rx = [running |-> TRUE, joinable |-> TRUE, pc |-> "check", user |-> "idle",
          callback |-> cb, process |-> "alive",
          buffer |-> ZeroBuffer, len |-> 0, asduOpt |-> NullOpt, arrived |-> 0,
          parsed |-> <<>>, delivered |-> <<>>, dropped |-> 0,
          receivedASDUs |-> <<>>, receivedMutex |-> "free", result |-> <<>>,
          appended |-> <<>>, returned |-> <<>>, left |-> 0, drains |-> 0]

----------------------------------------------------------------------------
\* DistanceProtection. Voltages are in volts, currents in tenths of an ampere,
\* angles in milliradians, times in microseconds. A phasor is given by its
\* magnitude and its angle, so that |V/I| = |V|/|I| and arg(V/I) = arg V - arg I
\* are exact. The relay is called from one thread; what a trip callback does
\* to the relay happens inside update.

\* calls of update in one run
MaxUpdates == 3

\* calls of setEnabled and onTrip in one run
MaxSettings == 2

\* std::numbers::pi, in milliradians
Pi == 3142

\* currents are counted in tenths of an ampere
PerAmpere == 10

DistanceZone(reachOhm, angleRad, delay, enabled) ==
    [reachOhm |-> reachOhm, angleRad |-> angleRad, delay |-> delay, enabled |-> enabled]

\* DistanceProtectionSettings(): zones of 10, 20 and 30 ohm, 1.047 rad, delays
\* of 0, 300 and 600 microseconds; 20.0 V and 0.5 A
DistanceProtectionSettings(zone1Enabled, directionForward) ==
    [zone |-> <<DistanceZone(10, 1047, 0, zone1Enabled),
                DistanceZone(20, 1047, 300, TRUE),
                DistanceZone(30, 1047, 600, TRUE)>>,
     voltageThresholdV |-> 20,
     currentThresholdA |-> 5,
     directionForward |-> directionForward]

Zones == 1..3

\* |V| in volts: below the threshold, and above
VoltageMags == {10, 100}

\* |I| in tenths of an ampere: 0.2 A, 5 A, 10 A
CurrentMags == {2, 50, 100}

\* what locking callbackMutex_, a std::mutex, does in the thread that holds
\* it: the thread waits for itself, or lock() throws std::system_error
RelockOutcomes == {"deadlock", "system_error"}

Phasors(v, i, angle) == [v |-> v, i |-> i, angle |-> angle]

NoTrip == [k \in Zones |-> FALSE]

\* void DistanceProtection::reset()
reset(r) == [r EXCEPT !.active = [k \in Zones |-> FALSE]]

\* impedance.real() > 0 for an impedance of the given angle, in (-Pi, Pi]
RealPositive(angle) == 2 * Abs(angle) < Pi

RealNegative(angle) == 2 * Abs(angle) > Pi

checkDirecation(r, in) ==
    IF r.settings.directionForward THEN RealPositive(in.angle)
                                   ELSE RealNegative(in.angle)

checkZoneInside(zone, in) ==
    IF ~zone.enabled \/ in.v * PerAmpere >= zone.reachOhm * in.i THEN FALSE
    ELSE LET normalizedAngle == Abs(in.angle) % (2 * Pi)
         IN  normalizedAngle <= zone.angleRad \/ normalizedAngle >= 2 * Pi - zone.angleRad

\* impedance > zone.reachOhm, with impedance = |V| / |I|
checkZone(zone, in) ==
    IF ~zone.enabled \/ in.v * PerAmpere > zone.reachOhm * in.i THEN FALSE
    ELSE LET normalizedAngle == Abs(in.angle) % (2 * Pi)
         IN  normalizedAngle <= zone.angleRad \/ normalizedAngle >= 2 * Pi - zone.angleRad

\* the callback runs inside invokeCallBack, under callbackMutex_; "disable"
\* calls setEnabled(false), "onTrip" calls onTrip, which locks callbackMutex_
invokeCallBack(r) ==
    CASE r.callback = "none" -> r
      [] r.callback = "record" -> [r EXCEPT !.invoked = r.invoked + 1]
      [] r.callback = "disable" ->
            reset([r EXCEPT !.invoked = r.invoked + 1, !.enabled = FALSE])
      [] r.callback = "onTrip" ->
            [r EXCEPT !.invoked = r.invoked + 1, !.caller = "relock"]

\* V/I lies inside the zone: |Z| <= reach and the angle within +-angleRad
Inside(zone, in) ==
    /\ in.v * PerAmpere <= zone.reachOhm * in.i
    /\ Abs(in.angle) <= zone.angleRad

\* since which update the impedance has been inside zone k on every update
Tracked(r, k, in, now) ==
    IF ~Inside(r.settings.zone[k], in) THEN [in |-> FALSE, at |-> 0]
    ELSE IF r.inside[k].in THEN r.inside[k]
    ELSE [in |-> TRUE, at |-> now]

\* the block of update for zone k
zoneUpdate(r, k, in, now) ==
    LET zone == r.settings.zone[k]
    IN  IF r.caller # "returned" THEN r
        ELSE IF zone.enabled /\ checkZone(zone, in)
          THEN LET picked == IF ~r.active[k]
                               THEN [r EXCEPT !.active[k] = TRUE, !.start[k] = now]
                               ELSE r
               \* duration_cast<milliseconds>(now - start) >= delay, the delay in
               \* microseconds
               IN  IF ((now - picked.start[k]) \div 1000) * 1000 >= zone.delay
                     THEN invokeCallBack([picked EXCEPT !.result[k] = TRUE])
                     ELSE picked
          ELSE [r EXCEPT !.active[k] = FALSE]

\* DistanceProtection::update, for a relay r whose result is NoTrip
updated(r, in, now) ==
    IF r.caller # "returned" THEN r
    ELSE IF ~r.enabled THEN r
    ELSE IF in.v < r.settings.voltageThresholdV \/ in.i < r.settings.currentThresholdA
      THEN reset(r)
    ELSE IF ~checkDirecation(r, in) THEN reset(r)
    ELSE zoneUpdate(zoneUpdate(zoneUpdate(r, 1, in, now), 2, in, now), 3, in, now)

\* a call of update that returns leaves its result in relay.result; one that
\* locks callbackMutex_ again does not return, and the relay is left as the
\* caller last saw it
update(in, step) ==
    /\ relay.caller = "returned"
    /\ relay.updates < MaxUpdates
    /\ LET now == relay.now + step
           entry == [relay EXCEPT !.result = NoTrip, !.invoked = 0, !.now = now,
                                  !.updates = relay.updates + 1]
           out == updated(entry, in, now)
       IN  IF out.caller = "relock"
             THEN \E outcome \in RelockOutcomes :
                     relay' = [relay EXCEPT !.caller = outcome]
             ELSE relay' = [out EXCEPT
                        !.inside = [k \in Zones |-> Tracked(relay, k, in, now)],
                        !.last = [in |-> in, enabled |-> relay.enabled,
                                  callback |-> relay.callback,
                                  active |-> relay.active]]
    /\ UNCHANGED <<breakerVars, pub, rx, diff, codec, defCall, ptp, writer, reader, controlBlock>>

setEnabled(enabled) ==
    /\ relay.caller = "returned"
    /\ relay.calls < MaxSettings
    /\ relay' = LET set == [relay EXCEPT !.enabled = enabled, !.calls = relay.calls + 1]
                IN  IF ~enabled THEN reset(set) ELSE set
    /\ UNCHANGED <<breakerVars, pub, rx, diff, codec, defCall, ptp, writer, reader, controlBlock>>

onTrip(cb) ==
    /\ relay.caller = "returned"
    /\ relay.calls < MaxSettings
    /\ relay' = [relay EXCEPT !.callback = cb, !.calls = relay.calls + 1]
    /\ UNCHANGED <<breakerVars, pub, rx, diff, codec, defCall, ptp, writer, reader, controlBlock>>

\* DistanceProtection::create(settings): enabled, no pickup, no callback
InitRelay(settings) ==
    relay = [settings |-> settings, enabled |-> TRUE,
             active |-> [k \in Zones |-> FALSE], start |-> [k \in Zones |-> 0],
             callback |-> "none", now |-> 0, updates |-> 0, calls |-> 0,
             result |-> NoTrip, invoked |-> 0, caller |-> "returned",
             inside |-> [k \in Zones |-> [in |-> FALSE, at |-> 0]],
             last |-> [in |-> Phasors(0, 0, 0), enabled |-> TRUE, callback |-> "none",
                       active |-> [k \in Zones |-> FALSE]]]

----------------------------------------------------------------------------
\* DifferentialProtection. Currents are in tenths of an ampere; the two
\* currents given to update are in phase or in opposition, so that
\* |I1 - I2| and |I1 + I2| are exact. The restraint current |(I1 + I2)/2| is
\* kept as its double, |I1 + I2|.

\* DifferentialProtectionSettings: 0.3 A, 1.0 A, 10.0 A
DifferentialProtectionSettings(slopePercent) ==
    [slopePercent |-> slopePercent, minOperatingCurrentA |-> 3,
     minRestraintCurrentA |-> 10, instantaneousThresholdA |-> 100]

\* the pairs (I1, I2): operating current below the minimum; restraint below
\* its minimum with the operating current under and over the slope; under
\* the slope, on the 50 % slope; at the instantaneous threshold and above it
DifferentialCurrents ==
    { <<50, 48>>, <<11, 7>>, <<10, 6>>, <<50, 40>>, <<50, 30>>, <<100, 0>>, <<150, 0>> }

operatingMag(i1, i2) == Abs(i1 - i2)

instantaneousAbove(settings, operating) == operating > settings.instantaneousThresholdA

\* operatingMag >= settings_.instantaneousThresholdA
instantaneous(settings, operating) == operating >= settings.instantaneousThresholdA

checkCharacteristicSlopeOnly(settings, operating, restraint2) ==
    IF operating < settings.minOperatingCurrentA THEN FALSE
    ELSE 200 * operating >= restraint2 * settings.slopePercent

\* operating >= restraint * (slopePercent / 100.0), with restraint2 = 2 * restraint
checkCharacteristic(settings, operating, restraint2) ==
    IF operating < settings.minOperatingCurrentA THEN FALSE
    ELSE IF restraint2 < 2 * settings.minRestraintCurrentA
      THEN operating >= settings.minOperatingCurrentA
    ELSE 200 * operating >= restraint2 * settings.slopePercent

NoDifferentialTrip == [trip |-> FALSE, instantaneous |-> FALSE]

\* the callback is invoked under callbackMutex_; "onTrip" locks it again
differentialCallback(d) ==
    CASE d.callback = "none" -> d
      [] d.callback = "record" -> [d EXCEPT !.invoked = d.invoked + 1]
      [] d.callback = "onTrip" -> [d EXCEPT !.invoked = d.invoked + 1, !.caller = "relock"]

\* DifferentialProtection::update, for a relay d whose result is the default
differentialUpdated(d, i1, i2) ==
    LET operating == operatingMag(i1, i2)
        \* twice restraintMag
        restraint2 == Abs(i1 + i2)
    IN  IF ~d.enabled THEN d
        ELSE IF instantaneous(d.settings, operating)
          THEN differentialCallback([d EXCEPT !.result = [trip |-> TRUE, instantaneous |-> TRUE]])
        ELSE IF checkCharacteristic(d.settings, operating, restraint2)
          THEN differentialCallback([d EXCEPT !.result = [trip |-> TRUE, instantaneous |-> FALSE]])
        ELSE d

\* a call that locks callbackMutex_ again does not return, and the relay is
\* left as the caller last saw it
differentialUpdate(i1, i2) ==
    /\ diff.caller = "returned"
    /\ diff.updates < MaxUpdates
    /\ LET entry == [diff EXCEPT !.result = NoDifferentialTrip, !.invoked = 0,
                                 !.updates = diff.updates + 1]
           out == differentialUpdated(entry, i1, i2)
       IN  IF out.caller = "relock"
             THEN \E outcome \in RelockOutcomes : diff' = [diff EXCEPT !.caller = outcome]
             ELSE diff' = [out EXCEPT !.last = [i1 |-> i1, i2 |-> i2,
                                                enabled |-> diff.enabled,
                                                callback |-> diff.callback]]
    /\ UNCHANGED <<breakerVars, pub, rx, relay, codec, defCall, ptp, writer, reader, controlBlock>>

differentialSetEnabled(enabled) ==
    /\ diff.caller = "returned"
    /\ diff.calls < MaxSettings
    /\ diff' = [diff EXCEPT !.enabled = enabled, !.calls = diff.calls + 1]
    /\ UNCHANGED <<breakerVars, pub, rx, relay, codec, defCall, ptp, writer, reader, controlBlock>>

differentialOnTrip(cb) ==
    /\ diff.caller = "returned"
    /\ diff.calls < MaxSettings
    /\ diff' = [diff EXCEPT !.callback = cb, !.calls = diff.calls + 1]
    /\ UNCHANGED <<breakerVars, pub, rx, relay, codec, defCall, ptp, writer, reader, controlBlock>>

\* DifferentialProtection::create(settings): enabled, no callback
InitDifferential(settings) ==
    diff = [settings |-> settings, enabled |-> TRUE, callback |-> "none",
            caller |-> "returned", updates |-> 0, calls |-> 0,
            result |-> NoDifferentialTrip, invoked |-> 0,
            last |-> [i1 |-> 0, i2 |-> 0, enabled |-> TRUE, callback |-> "none"]]

----------------------------------------------------------------------------
\* The wire codec: EthernetNetworkSender::sendASDU writes a frame with a
\* BufferWriter, the receive thread reads it into its buffer and parseASDU
\* reads the buffer with a BufferReader.  A frame is a sequence of bytes.
\* Numbers of 32 bits are kept below 2^31; a number of 64 bits is kept as
\* its two 32-bit words [hi, lo].

SV_ETHER_TYPE == 35002

VLAN_TAG_TPID == 33024

\* BufferWriter::writeUint8
writeUint8(val) == <<val % 256>>

\* BufferWriter::writeUint16: big-endian
writeUint16(val) == <<(val \div 256) % 256, val % 256>>

\* BufferWriter::writeUint32: big-endian
writeUint32(val) ==
    <<(val \div 16777216) % 256, (val \div 65536) % 256,
      (val \div 256) % 256, val % 256>>

\* BufferWriter::writeUint64: big-endian
writeUint64(val) == writeUint32(val.hi) \o writeUint32(val.lo)

\* write_i32: the two's complement of the val, big-endian
writeInt32(val) ==
    IF val >= 0 THEN writeUint32(val)
    ELSE LET low == (val + 2147483647) + 1
         IN  <<128 + (low \div 16777216), (low \div 65536) % 256,
               (low \div 256) % 256, low % 256>>

\* BufferWriter::writeFloat: std::bit_cast<uint32_t>(val) of a positive
\* float is 8 bits of exponent above 23 bits of mantissa
writeFloat(val) == writeUint32(val.exponent * 8388608 + val.mantissa)

\* BufferWriter::writeFixedString
writeFixedString(str, fixedSize) ==
    LET copyLen == Min(Len(str), fixedSize)
    IN  SubSeq(str, 1, copyLen) \o [i \in 1..(fixedSize - copyLen) |-> 0]

\* Quality::toRaw: the bit-fields lie from the least significant bit up:
\* validity (2 bits), the twelve flags, reserved (18 bits)
toRaw(quality) == quality.validity + 4 * quality.flags + 16384 * quality.reserved

\* Quality(raw)
Quality(raw) ==
    [validity |-> raw % 4, flags |-> (raw \div 4) % 4096, reserved |-> raw \div 16384]

\* std::variant<int32_t, uint32_t, float>: the alternative held and its
\* value; the field of the other kind is zero
Int32(val) == [type |-> "int32", int |-> val, float |-> [exponent |-> 0, mantissa |-> 0]]

Uint32(val) == [type |-> "uint32", int |-> val, float |-> [exponent |-> 0, mantissa |-> 0]]

Float(exponent, mantissa) ==
    [type |-> "float", int |-> 0, float |-> [exponent |-> exponent, mantissa |-> mantissa]]

AnalogValue(val, quality) == [value |-> val, quality |-> quality]

\* the tag written before the EtherType when the control block has a VLAN
vlanTagAlways(svcb) ==
    writeUint16(VLAN_TAG_TPID)
        \o writeUint16(((svcb.userPriority * 8192) % 65536) + (svcb.vlanId % 4096))

vlanTag(svcb) ==
    IF svcb.vlanId > 0
        THEN writeUint16(VLAN_TAG_TPID)
                 \o writeUint16(((svcb.userPriority * 8192) % 65536) + (svcb.vlanId % 4096))
        ELSE <<>>

\* the loop of sendASDU over asdu.dataSet: each value by its alternative,
\* then its quality
RECURSIVE writeDataSet(_)
writeDataSet(dataSet) ==
    IF dataSet = <<>> THEN <<>>
    ELSE LET analogValue == Head(dataSet)
         IN  (CASE analogValue.value.type = "int32" -> writeInt32(analogValue.value.int)
                [] analogValue.value.type = "uint32" -> writeUint32(analogValue.value.int)
                [] analogValue.value.type = "float" -> writeFloat(analogValue.value.float))
                 \o writeUint32(toRaw(analogValue.quality))
                 \o writeDataSet(Tail(dataSet))

\* writer.data() at the call of sendFrame.  The length field holds the
\* number of bytes after it.
writerData(svcb, asdu) ==
    LET head == svcb.destMac \o svcb.srcMac \o vlanTag(svcb)
                    \o writeUint16(SV_ETHER_TYPE) \o writeUint16(svcb.appId)
        body == writeUint16(IF svcb.simulate THEN 32768 ELSE 0)
                    \o writeUint16(0)
                    \o writeUint8(1)
                    \o writeFixedString(asdu.svID, 64)
                    \o writeUint16(asdu.smpCnt)
                    \o writeUint32(svcb.confRev)
                    \o writeUint8(svcb.smpSynch)
                    \o (IF svcb.gmIdentity.has THEN svcb.gmIdentity.value ELSE <<>>)
                    \o writeDataSet(asdu.dataSet)
                    \o writeUint64(asdu.timestamp)
    IN  head \o writeUint16(Len(body)) \o body

\* data_[pos] of the receive buffer: the bytes no frame has written are zero
byteAt(buffer, pos) == IF pos < Len(buffer) THEN buffer[pos + 1] ELSE 0

\* BufferReader::readUint8
readUint8(buffer, pos) == IF pos >= BUFFER_SIZE THEN 0 ELSE byteAt(buffer, pos)

\* BufferReader::readUint16
readUint16(buffer, pos) ==
    IF pos + 2 > BUFFER_SIZE THEN 0
    ELSE byteAt(buffer, pos) * 256 + byteAt(buffer, pos + 1)

\* BufferReader::readUint32
readUint32(buffer, pos) ==
    IF pos + 4 > BUFFER_SIZE THEN 0
    ELSE readUint16(buffer, pos) * 65536 + readUint16(buffer, pos + 2)

\* read_i32: four bytes, big-endian, as a two's complement
readInt32(buffer, pos) ==
    IF pos + 4 > BUFFER_SIZE THEN 0
    ELSE IF byteAt(buffer, pos) < 128 THEN readUint32(buffer, pos)
    ELSE (((byteAt(buffer, pos) - 128) * 16777216 + byteAt(buffer, pos + 1) * 65536
              + readUint16(buffer, pos + 2)) - 2147483647) - 1

\* BufferReader::readUint64
readUint64(buffer, pos) ==
    IF pos + 8 > BUFFER_SIZE THEN [hi |-> 0, lo |-> 0]
    ELSE [hi |-> readUint32(buffer, pos), lo |-> readUint32(buffer, pos + 4)]

\* BufferReader::readFixedString: at most the bytes that remain, cut at the
\* first NUL
readFixedString(buffer, pos, fixedSize) ==
    LET size == Min(fixedSize, remaining(pos))
        str == [i \in 1..size |-> byteAt(buffer, pos + i - 1)]
        nul == {i \in 1..size : str[i] = 0}
    IN  IF nul = {} THEN str
        ELSE SubSeq(str, 1, (CHOOSE i \in nul : \A j \in nul : i <= j) - 1)

\* while (!asdu.svID.empty() && asdu.svID.back() == ' ') asdu.svID.pop_back()
trimSpaces(str) ==
    LET kept == {i \in 1..Len(str) : str[i] # 32}
    IN  IF kept = {} THEN <<>>
        ELSE SubSeq(str, 1, CHOOSE i \in kept : \A j \in kept : j <= i)

\* the reader's position after the EtherType: a frame that starts with the
\* TPID carries the TCI and then the EtherType
etherTypeEnd(buffer) ==
    IF readUint16(buffer, 12) = VLAN_TAG_TPID THEN EtherTypeEnd + 4 ELSE EtherTypeEnd

\* EthernetNetworkReceiver::parseASDU(buffer, length) on the bytes of the
\* buffer, with the wall clock at now.  The reader is made from the whole
\* buffer of BUFFER_SIZE bytes.
parseFrame(buffer, length, now) ==
    IF length < MIN_SV_FRAME_SIZE THEN NullOpt
    ELSE LET base == etherTypeEnd(buffer)
             etherType == readUint16(buffer, base - 2)
             numASDUs == readUint8(buffer, base + 8)
             data == base + 8 + 1 + 64 + 2 + 4 + 1
             size == Min(VALUES_PER_ASDU, remaining(data) \div 8)
             after == data + 8 * size
             asdu == [svID |-> trimSpaces(readFixedString(buffer, base + 9, 64)),
                      smpCnt |-> readUint16(buffer, base + 73),
                      confRev |-> readUint32(buffer, base + 75),
                      smpSynch |-> LET synchValue == readUint8(buffer, base + 79)
                                   IN  IF synchValue \in {0, 1, 2}
                                           THEN synchValue ELSE 0,
                      dataSet |-> [i \in 1..size |->
                          AnalogValue(Int32(readInt32(buffer, data + 8 * (i - 1))),
                                      Quality(readUint32(buffer, data + 8 * (i - 1) + 4)))],
                      timestamp |-> IF remaining(after) >= 8
                                      THEN readUint64(buffer, after) ELSE now]
         IN  IF etherType # SV_ETHER_TYPE THEN NullOpt
             ELSE IF numASDUs = 0 \/ numASDUs > MAX_ASDUS_PER_MESSAGE THEN NullOpt
             ELSE IF size # VALUES_PER_ASDU THEN NullOpt
             ELSE IF ~isValid([svID |-> asdu.svID, size |-> Len(asdu.dataSet)]) THEN NullOpt
             ELSE Some(asdu)

\* recv() of a frame into the buffer: the frame's bytes replace the first
\* bytes of the buffer, the others stay
recvBytes(buffer, frame) ==
    [i \in 1..Max(Len(buffer), Len(frame)) |->
        IF i <= Len(frame) THEN frame[i] ELSE buffer[i]]

\* an ASDU as IedServer builds it for a control block of confRev 1 and
\* smpSynch Local
ASDU(svID, smpCnt, first, quality, timestamp) ==
    [svID |-> svID, smpCnt |-> smpCnt, confRev |-> 1, smpSynch |-> 1,
     dataSet |-> <<AnalogValue(first, quality)>>
                     \o [i \in 1..(VALUES_PER_ASDU - 1) |->
                            AnalogValue(Int32(i), Quality(0))],
     timestamp |-> timestamp]

\* a control block: multicast 01:0C:CD:04:00:01, APPID 0x4000
SampledValueControlBlock(vlanId, userPriority, confRev, smpSynch, gmIdentity) ==
    [destMac |-> <<1, 12, 205, 4, 0, 1>>, srcMac |-> <<2, 0, 0, 0, 0, 1>>,
     appId |-> 16384, vlanId |-> vlanId, userPriority |-> userPriority,
     simulate |-> FALSE, confRev |-> confRev, smpSynch |-> smpSynch,
     gmIdentity |-> gmIdentity]

DefaultSvcb == SampledValueControlBlock(0, 4, 1, 0, NullOpt)

DefaultASDU ==
    ASDU(<<83, 86, 48, 49>>, 0, Int32(5), Quality(0),
         [hi |-> 0, lo |-> 0])

\* what arrives at the subscriber of the frame sent: the frame, the frame
\* cut before its timestamp, before its dataset, after 22, 21 and 10 bytes,
\* and frames of other senders: another EtherType, no ASDU, nine ASDUs, an
\* svID of one character
FrameKinds ==
    {"whole", "noTimestamp", "noDataSet", "header", "belowMin", "runt",
     "otherEtherType", "noASDUs", "nineASDUs", "shortSvID"}

arriving(frame, kind) ==
    LET base == etherTypeEnd(frame)
        \* the frame with the bytes from position pos (counted from 0) replaced
        patch(from, pos, bytes) ==
            [i \in 1..Len(from) |->
                IF i > pos /\ i <= pos + Len(bytes) THEN bytes[i - pos] ELSE from[i]]
    IN  CASE kind = "whole" -> frame
          [] kind = "noTimestamp" -> SubSeq(frame, 1, Len(frame) - 8)
          [] kind = "noDataSet" -> SubSeq(frame, 1, Len(frame) - 8 - 8 * VALUES_PER_ASDU)
          [] kind = "header" -> SubSeq(frame, 1, MIN_SV_FRAME_SIZE)
          [] kind = "belowMin" -> SubSeq(frame, 1, MIN_SV_FRAME_SIZE - 1)
          [] kind = "runt" -> SubSeq(frame, 1, 10)
          [] kind = "otherEtherType" -> patch(frame, base - 2, writeUint16(2048))
          [] kind = "noASDUs" -> patch(frame, base + 8, writeUint8(0))
          [] kind = "nineASDUs" -> patch(frame, base + 8, writeUint8(9))
          [] kind = "shortSvID" -> patch(frame, base + 9, writeFixedString(<<88>>, 64))

\* the wall clock when a frame is parsed
WallClock == [hi |-> 410000000, lo |-> 9]

\* sendASDU(svcb, asdu): the frame is on the wire
transmit ==
    /\ codec.pc = "idle"
    /\ codec' = [codec EXCEPT !.pc = "sent", !.wire = writerData(codec.svcb, codec.asdu)]
    /\ UNCHANGED <<breakerVars, pub, rx, relay, diff, defCall, ptp, writer, reader, controlBlock>>

\* one turn of the receive loop: recv(), the check of 14 bytes, parseASDU
capture(kind) ==
    /\ codec.pc = "sent"
    /\ LET frame == arriving(codec.wire, kind)
           buffer == recvBytes(codec.buffer, frame)
       IN  codec' = [codec EXCEPT !.pc = "parsed", !.kind = kind, !.frame = frame,
                                  !.buffer = buffer,
                                  !.asduOpt = IF Len(frame) < 14 THEN NullOpt
                                                ELSE parseFrame(buffer, Len(frame), WallClock)]
    /\ UNCHANGED <<breakerVars, pub, rx, relay, diff, defCall, ptp, writer, reader, controlBlock>>

\* the receive thread has just started (its buffer is all zero), or it has
\* received frames before
InitCodec(svcb, asdu, buffer) ==
    codec = [svcb |-> svcb, asdu |-> asdu, pc |-> "idle", wire |-> <<>>,
             kind |-> "none", frame |-> <<>>, buffer |-> buffer, stale |-> buffer,
             asduOpt |-> NullOpt]

----------------------------------------------------------------------------
\* BreakerDefinition and the calls that take one

\* BreakerDefinition::isValid
BreakerDefinition_isValid(def) ==
    /\ def.openTimeMs > 0 /\ def.closeTimeMs > 0
    /\ def.resistanceMilliOhm >= 0 /\ def.maxCurrentA > 0
    /\ def.voltageRatingV > 0 /\ def.powerRatingW > 0
    /\ def.arcVoltageV >= 0 /\ def.arcResistanceMilliOhm >= 0
    /\ def.contactGapMm > 0 /\ def.dielectricStrengthKVpm > 0

\* the definitions given: the default one, the fast one, and the default one
\* with one rating zero or negative
Definitions ==
    {DefaultDefinition, FastDefinition}
        \cup {[DefaultDefinition EXCEPT ![rating] = v] : rating \in DOMAIN DefaultDefinition, v \in {-1, 0}}

\* no call yet: the breaker was made by BreakerModel()
InitDefCall ==
    defCall = [call |-> "none", given |-> DefaultDefinition, outcome |-> "returned",
               constructed |-> TRUE, before |-> DefaultDefinition, stateBefore |-> "OPEN"]

\* BreakerModel(definition): the outcome of the constructor
constructor(def) ==
    [call |-> "constructor", given |-> def,
     outcome |-> IF BreakerDefinition_isValid(def) THEN "returned" ELSE "invalid_argument",
     constructed |-> BreakerDefinition_isValid(def),
     before |-> def, stateBefore |-> "OPEN"]

\* BreakerModel::setDefinition
setDefinition(def) ==
    /\ defCall.constructed
    /\ defCall' = [call |-> "setDefinition", given |-> def,
                   outcome |-> IF BreakerDefinition_isValid(def)
                                 THEN "returned" ELSE "invalid_argument",
                   constructed |-> TRUE, before |-> definition, stateBefore |-> state]
    /\ definition' = IF BreakerDefinition_isValid(def) THEN def ELSE definition
    /\ UNCHANGED <<bvars, cvars, stack, ret, owed, cbError, cbLog, script, ticks,
                   pub, rx, relay, diff, codec, ptp, writer, reader, controlBlock>>

----------------------------------------------------------------------------
\* PtpTimestamp and its TAI form.  seconds_ (uint64_t) is kept as its eight
\* bytes, most significant first; nanoseconds_ as a number.

NanosPerSecond == 1000000000

\* the nanoseconds tried from 0 up
MaxNanos == 12

\* PtpTimestamp(seconds, nanoseconds)
PtpTimestamp(seconds, nanoseconds) ==
    [seconds |-> seconds, nanoseconds |-> nanoseconds,
     valid |-> nanoseconds < NanosPerSecond]

\* the fraction written with its last byte zero
toTaiCoarse(ts) ==
    LET rem[n \in 0..24] ==
            IF n = 0 THEN ts.nanoseconds % NanosPerSecond
            ELSE (2 * rem[n - 1]) % NanosPerSecond
        bit(n) == IF 2 * rem[n - 1] >= NanosPerSecond THEN 1 ELSE 0
        byte(k) == 128 * bit(8 * k + 1) + 64 * bit(8 * k + 2) + 32 * bit(8 * k + 3)
                       + 16 * bit(8 * k + 4) + 8 * bit(8 * k + 5) + 4 * bit(8 * k + 6)
                       + 2 * bit(8 * k + 7) + bit(8 * k + 8)
    IN  SubSeq(ts.seconds, 5, 8) \o <<byte(0), byte(1), byte(2), 0>>

\* PtpTimestamp::toTai: the low four bytes of seconds_, then
\* fraction = uint32_t((uint64_t(nanoseconds_) << 32) / 10^9), most
\* significant byte first.  The quotient is taken bit by bit, by long
\* division; the cast to uint32_t drops the whole multiples of 2^32, which
\* are the whole multiples of 10^9 in nanoseconds_.
toTai(ts) ==
    LET rem[n \in 0..32] ==
            IF n = 0 THEN ts.nanoseconds % NanosPerSecond
            ELSE (2 * rem[n - 1]) % NanosPerSecond
        bit(n) == IF 2 * rem[n - 1] >= NanosPerSecond THEN 1 ELSE 0
        byte(k) == 128 * bit(8 * k + 1) + 64 * bit(8 * k + 2) + 32 * bit(8 * k + 3)
                       + 16 * bit(8 * k + 4) + 8 * bit(8 * k + 5) + 4 * bit(8 * k + 6)
                       + 2 * bit(8 * k + 7) + bit(8 * k + 8)
    IN  SubSeq(ts.seconds, 5, 8) \o <<byte(0), byte(1), byte(2), byte(3)>>

\* PtpTimestamp::fromTai: seconds from data[0..3], fraction from data[4..7],
\* nanoseconds = uint32_t((uint64_t(fraction) * 10^9) >> 32).  10^9 is
\* 2^9 * 5^9, so the product shifted is (fraction * 5^9) >> 23; it is summed
\* from the bytes of the fraction, the least significant first.
fromTai(data) ==
    LET t(i) == data[i] * 1953125
        low == ((t(8) \div 256) + t(7)) \div 256
        nanoseconds == 2 * t(5) + ((low + t(6)) \div 128)
    IN  IF nanoseconds >= NanosPerSecond THEN NullOpt
        ELSE Some(PtpTimestamp(<<0, 0, 0, 0>> \o SubSeq(data, 1, 4), nanoseconds))

\* a timestamp made, not yet converted
InitPtp(ts) == ptp = [pc |-> "made", ts |-> ts, data |-> <<>>, back |-> NullOpt]

\* original.toTai()
convertToTai ==
    /\ ptp.pc = "made"
    /\ ptp' = [ptp EXCEPT !.pc = "tai", !.data = toTai(ptp.ts)]
    /\ UNCHANGED <<breakerVars, pub, rx, relay, diff, codec, defCall, writer, reader, controlBlock>>

\* PtpTimestamp::fromTai(tai)
convertFromTai ==
    /\ ptp.pc = "tai"
    /\ ptp' = [ptp EXCEPT !.pc = "reconstructed", !.back = fromTai(ptp.data)]
    /\ UNCHANGED <<breakerVars, pub, rx, relay, diff, codec, defCall, writer, reader, controlBlock>>

----------------------------------------------------------------------------
\* BufferWriter::writeUint16At.  The repository holds two versions of the
\* class: include/sv/core/buffer.h, and the one that follows the types of
\* types.h; a build has one of them.

\* the positions tried from 0 up
MaxPos == 4

\* a size_t: n, or 2^64 - n when wrap holds
SizeT(wrap, n) == [wrap |-> wrap, n |-> n]

\* what a call of writeUint16At(pos, val) on the buffer can end as.  pos + 2
\* is computed in size_t; when it wraps, the range check passes and the copy
\* goes to an address far outside the buffer: the process dies, or the bytes
\* land elsewhere and the call returns.  The version of buffer.h returns
\* where the one of types.h throws.
writeUint16At(header, buffer, pos, val) ==
    LET plus2 == IF ~pos.wrap THEN SizeT(FALSE, pos.n + 2)
                 ELSE IF pos.n <= 2 THEN SizeT(FALSE, 2 - pos.n)
                 ELSE SizeT(TRUE, pos.n - 2)
        \* htobe16(val) copied to pos
        copied == [i \in 1..Len(buffer) |->
                      IF i = pos.n + 1 THEN val \div 256
                      ELSE IF i = pos.n + 2 THEN val % 256
                      ELSE buffer[i]]
    IN  IF plus2.wrap \/ plus2.n > Len(buffer)
            THEN {[outcome |-> IF header = "types.h" THEN "out_of_range" ELSE "returned",
                   buffer |-> buffer]}
        ELSE IF pos.wrap
            THEN {[outcome |-> "killed", buffer |-> buffer],
                  [outcome |-> "returned", buffer |-> buffer]}
        ELSE {[outcome |-> "returned", buffer |-> copied]}

\* a writer whose buffer has been written, and no call of writeUint16At yet
InitWriter(header, buffer) ==
    writer = [header |-> header, buffer |-> buffer, before |-> buffer,
              pc |-> "written", pos |-> SizeT(FALSE, 0), val |-> 0,
              outcome |-> "none"]

\* writer.writeUint16At(pos, val)
patch(pos, val) ==
    /\ writer.pc = "written"
    /\ \E end \in writeUint16At(writer.header, writer.buffer, pos, val) :
          writer' = [writer EXCEPT !.pc = "patched", !.pos = pos, !.val = val,
                                   !.outcome = end.outcome, !.buffer = end.buffer]
    /\ UNCHANGED <<breakerVars, pub, rx, relay, diff, codec, defCall, ptp, reader, controlBlock>>

----------------------------------------------------------------------------
\* BufferReader: its cursor pos_ over data_ of length_ bytes

\* the calls made on one reader
MaxReads == 3

\* a reader just made over data, no call yet
InitBufferReader(data) ==
    reader = [data |-> data, pos |-> 0, calls |-> 0,
              last |-> [op |-> "none", arg |-> SizeT(FALSE, 0), before |-> 0,
                        outcome |-> "returned", val |-> <<>>]]

\* BufferReader::readUint8, readUint16, readUint32, readUint64 for width 1,
\* 2, 4, 8: 0 when fewer bytes remain, else the bytes at the cursor (read
\* here most significant first) and the cursor moved past them
readPrimitive(width) ==
    /\ reader.calls < MaxReads
    /\ LET short == reader.pos + width > Len(reader.data)
       IN  reader' = [reader EXCEPT
               !.calls = @ + 1,
               !.pos = IF short THEN @ ELSE @ + width,
               !.last = [op |-> "read", arg |-> SizeT(FALSE, width),
                         before |-> reader.pos, outcome |-> "returned",
                         val |-> IF short THEN [i \in 1..width |-> 0]
                                 ELSE SubSeq(reader.data, reader.pos + 1,
                                             reader.pos + width)]]
    /\ UNCHANGED <<breakerVars, pub, rx, relay, diff, codec, defCall, ptp, writer, controlBlock>>

\* BufferReader::skip: pos_ = std::min(pos_ + bytes, length_), the sum taken
\* in size_t: bytes = 2^64 - n makes it pos_ - n when pos_ >= n
skip(bytes) ==
    /\ reader.calls < MaxReads
    /\ LET sum == IF ~bytes.wrap THEN SizeT(FALSE, reader.pos + bytes.n)
                  ELSE IF reader.pos >= bytes.n THEN SizeT(FALSE, reader.pos - bytes.n)
                  ELSE SizeT(TRUE, bytes.n - reader.pos)
       IN  reader' = [reader EXCEPT
               !.calls = @ + 1,
               !.pos = IF sum.wrap THEN Len(reader.data)
                       ELSE Min(sum.n, Len(reader.data)),
               !.last = [op |-> "skip", arg |-> bytes, before |-> reader.pos,
                         outcome |-> "returned", val |-> <<>>]]
    /\ UNCHANGED <<breakerVars, pub, rx, relay, diff, codec, defCall, ptp, writer, controlBlock>>

\* BufferReader::seek
seek(pos) ==
    /\ reader.calls < MaxReads
    /\ LET beyond == pos.wrap \/ pos.n > Len(reader.data)
       IN  reader' = [reader EXCEPT
               !.calls = @ + 1,
               !.pos = IF beyond THEN @ ELSE pos.n,
               !.last = [op |-> "seek", arg |-> pos, before |-> reader.pos,
                         outcome |-> IF beyond THEN "out_of_range" ELSE "returned",
                         val |-> <<>>]]
    /\ UNCHANGED <<breakerVars, pub, rx, relay, diff, codec, defCall, ptp, writer, controlBlock>>

----------------------------------------------------------------------------
\* SampledValueControlBlock::setUserPriority

\* a control block as made: uint8_t userPriority_{4}
InitControlBlock ==
    controlBlock = [userPriority |-> 4, given |-> 4, before |-> 4, calls |-> 0]

\* SampledValueControlBlock::setUserPriority(priority), priority a uint8_t
setUserPriority(priority) ==
    /\ controlBlock' = [userPriority |-> IF priority >= 1 /\ priority <= 7
                                           THEN priority
                                           ELSE controlBlock.userPriority,
                        given |-> priority,
                        before |-> controlBlock.userPriority,
                        calls |-> Min(controlBlock.calls + 1, 1)]
    /\ UNCHANGED <<breakerVars, pub, rx, relay, diff, codec, defCall, ptp, writer, reader>>

\* the objects of the other specifications, as made and not used
InitUnits ==
    /\ InitPtp(PtpTimestamp(<<0, 0, 0, 0, 0, 0, 0, 0>>, 0))
    /\ InitWriter("types.h", <<>>)
    /\ InitBufferReader(<<>>)
    /\ InitControlBlock

----------------------------------------------------------------------------
\* The application thread

Cmd(m, c, k) == [m |-> m, c |-> c, k |-> k]

Calls ==
    {Cmd(m, 0, "-") : m \in {"open", "close", "lock", "unlock", "trip"}}
    \cup {Cmd("setCurrent", c, "-") : c \in Currents}
    \cup {Cmd("onStateChange", 0, k) : k \in CallbackKinds \ {"record"}}

\* the application enters a call; the frame keeps the state at entry
Begin(cmd) ==
    /\ stack["app"] = <<>>
    /\ stack' = [stack EXCEPT !["app"] =
           <<[StartFrame(cmd.m, cmd.c, cmd.k) EXCEPT !.s2 = state]>>]
    /\ ret' = NoCall
    /\ UNCHANGED <<bvars, cvars, cbLog, definition, nonBreakerVars>>

\* any call, at any time
AppCall ==
    /\ script.calls = <<>>
    /\ \E cmd \in Calls : Begin(cmd)
    /\ UNCHANGED script
    /\ Observe

\* the next call of a scenario
ScriptCall ==
    /\ script.calls # <<>>
    /\ Begin(Head(script.calls))
    /\ script' = [script EXCEPT !.calls = Tail(script.calls)]
    /\ Observe

InitBreaker(def) ==
    /\ definition = def
    /\ state = "OPEN"
    /\ locked = FALSE
    /\ currentA = 0
    /\ targetState = "OPEN"
    /\ transitionDuration = 0
    /\ sinceStart = ElapsedCap
    /\ callback = "none"
    /\ callbackMutex = "free"
    /\ stack = [t \in Threads |->
                  IF t = "sim" THEN <<Frame("simulationLoop", "run")>> ELSE <<>>]
    /\ ret = NoCall
    /\ owed = EmptyBag
    /\ cbError = FALSE
    /\ cbLog = <<>>

AnyCalls == [name |-> "any", calls |-> <<>>]

Init ==
    /\ InitBreaker(FastDefinition)
    /\ script = AnyCalls
    /\ ticks = Ticks("off", 0)
    /\ InitPublisher(0, FALSE)
    /\ InitReceiver("store")
    /\ InitRelay(DistanceProtectionSettings(TRUE, TRUE))
    /\ InitDifferential(DifferentialProtectionSettings(25))
    /\ InitCodec(DefaultSvcb, DefaultASDU, <<>>)
    /\ InitDefCall
    /\ InitUnits

Next ==
    \/ AppCall
    \/ \E t \in Threads : open(t)
    \/ \E t \in Threads : close(t)
    \/ \E t \in Threads : lock(t)
    \/ \E t \in Threads : unlock(t)
    \/ \E t \in Threads : trip(t)
    \/ \E t \in Threads : setCurrent(t)
    \/ \E t \in Threads : onStateChange(t)
    \/ \E t \in Threads : relock(t)
    \/ \E t \in Threads : transitionToState(t)
    \/ updateState("sim")
    \/ simulationLoop("sim")

Spec == Init /\ [][Next]_vars

TypeOK ==
    /\ state \in BreakerState
    /\ locked \in BOOLEAN
    /\ targetState \in {"OPEN", "CLOSED"}
    /\ transitionDuration \in {0, definition.openTimeMs, definition.closeTimeMs}
    /\ sinceStart \in 0..ElapsedCap
    /\ callback \in CallbackKinds \cup {"none"}
    /\ callbackMutex \in Threads \cup {"free"}

----------------------------------------------------------------------------
\* The commands alone: open() and close() called at any time while the
\* simulation runs, the time since each call counted

CommandCall ==
    /\ script.calls = <<>>
    /\ \E m \in {"open", "close"} : Begin(Cmd(m, 0, "-"))
    /\ UNCHANGED script
    /\ Observe

CommandInit ==
    /\ InitBreaker(FastDefinition)
    /\ script = AnyCalls
    /\ ticks = Timed(ElapsedCap, ElapsedCap)
    /\ InitPublisher(0, FALSE)
    /\ InitReceiver("store")
    /\ InitRelay(DistanceProtectionSettings(TRUE, TRUE))
    /\ InitDifferential(DifferentialProtectionSettings(25))
    /\ InitCodec(DefaultSvcb, DefaultASDU, <<>>)
    /\ InitDefCall
    /\ InitUnits

CommandNext ==
    \/ CommandCall
    \/ open("app")
    \/ close("app")
    \/ \E t \in Threads : transitionToState(t)
    \/ updateState("sim")
    \/ simulationLoop("sim")

CommandSpec == CommandInit /\ [][CommandNext]_vars

----------------------------------------------------------------------------
\* The breaker test runs: a default breaker with the simulation started, the
\* calls of the test in order, a sleep-and-assert taken as waiting for the
\* asserted state

Scenario(name, calls) == [name |-> name, calls |-> calls]

Scenarios ==
    { Scenario("S4", <<Cmd("onStateChange", 0, "record"), Cmd("close", 0, "-"),
                       Cmd("getState", 0, "CLOSED"), Cmd("setCurrent", 1500, "-")>>),
      Scenario("CloseBreaker", <<Cmd("close", 0, "-")>>),
      Scenario("OpenBreaker", <<Cmd("close", 0, "-"), Cmd("getState", 0, "CLOSED"),
                                Cmd("setCurrent", 500, "-"), Cmd("open", 0, "-")>>),
      Scenario("OverloadWhileClosing", <<Cmd("close", 0, "-"),
                                         Cmd("setCurrent", -1500, "-")>>),
      Scenario("OverloadWhileLocked", <<Cmd("lock", 0, "-"),
                                        Cmd("setCurrent", 1500, "-")>>) }

ScenarioInit ==
    /\ InitBreaker(DefaultDefinition)
    /\ script \in Scenarios
    /\ ticks = Ticks("call", 0)
    /\ InitPublisher(0, FALSE)
    /\ InitReceiver("store")
    /\ InitRelay(DistanceProtectionSettings(TRUE, TRUE))
    /\ InitDifferential(DifferentialProtectionSettings(25))
    /\ InitCodec(DefaultSvcb, DefaultASDU, <<>>)
    /\ InitDefCall
    /\ InitUnits

AppStep ==
    \/ ScriptCall
    \/ open("app")
    \/ close("app")
    \/ lock("app")
    \/ trip("app")
    \/ setCurrent("app")
    \/ onStateChange("app")
    \/ getState("app")
    \/ transitionToState("app")

SimStep ==
    \/ transitionToState("sim")
    \/ updateState("sim")
    \/ simulationLoop("sim")

ScenarioNext == AppStep \/ SimStep

\* both threads are scheduled: a thread that can take a step takes one
ScenarioSpec ==
    ScenarioInit /\ [][ScenarioNext]_vars /\ WF_vars(AppStep) /\ WF_vars(SimStep)

----------------------------------------------------------------------------
\* The publisher alone: any calls of updateSampledValue, before and after
\* start(), the counter anywhere up to WrapMargin calls before it wraps

PublisherInit ==
    /\ InitBreaker(DefaultDefinition)
    /\ script = AnyCalls
    /\ ticks = Ticks("off", 0)
    /\ \E count \in {0, CounterModulus - WrapMargin}, ndebug \in BOOLEAN :
          InitPublisher(count, ndebug)
    /\ InitReceiver("store")
    /\ InitRelay(DistanceProtectionSettings(TRUE, TRUE))
    /\ InitDifferential(DifferentialProtectionSettings(25))
    /\ InitCodec(DefaultSvcb, DefaultASDU, <<>>)
    /\ InitDefCall
    /\ InitUnits

\* one thread calls start(), stop() and updateSampledValue()
PublisherNext ==
    \/ enter("c1")
    \/ start("c1")
    \/ stop("c1")
    \/ run
    \/ destroy
    \* the sizes of the value vectors the caller passes
    \/ \E svcb \in SvcbNames, size \in {0, 7, 8} : updateSampledValue(svcb, size)

PublisherSpec == PublisherInit /\ [][PublisherNext]_vars

\* two threads call start() and stop() on the same IedServer
ServerInit ==
    /\ InitBreaker(DefaultDefinition)
    /\ script = AnyCalls
    /\ ticks = Ticks("off", 0)
    /\ InitPublisher(0, FALSE)
    /\ InitReceiver("store")
    /\ InitRelay(DistanceProtectionSettings(TRUE, TRUE))
    /\ InitDifferential(DifferentialProtectionSettings(25))
    /\ InitCodec(DefaultSvcb, DefaultASDU, <<>>)
    /\ InitDefCall
    /\ InitUnits

ServerNext ==
    \/ \E c \in Callers : enter(c)
    \/ \E c \in Callers : start(c)
    \/ \E c \in Callers : stop(c)
    \/ run
    \/ destroy

ServerSpec == ServerInit /\ [][ServerNext]_vars

----------------------------------------------------------------------------
\* Claims about the breaker under any calls of the application

AppIdle == stack["app"] = <<>>

Terminated == \E t \in Threads : stack[t] # <<>> /\ stack[t][1].m = "terminate"

AppSteps == stack'["app"] # stack["app"] /\ ~Terminated'

InTransition(t) == \E i \in 1..Len(stack[t]) : stack[t][i].m = "transitionToState"

\* C1: close() returns false whenever the locked flag it reads is true or the
\* state it reads is CLOSED or CLOSING, open() likewise for OPEN and OPENING,
\* and the step that returns false changes nothing of the breaker and comes
\* before any call of transitionToState.
C1_RejectedCommandChangesNothing ==
    [][(Len(stack["app"]) = 1 /\ AppSteps /\ stack["app"][1].m \in {"open", "close"}) =>
        LET f == stack["app"][1]
            terminal == IF f.m = "close" THEN {"CLOSED", "CLOSING"} ELSE {"OPEN", "OPENING"}
            mustReject == \/ f.at = "locked" /\ locked
                          \/ f.at = "state" /\ state \in terminal
        IN  /\ mustReject => (ret'.m = f.m /\ ret'.v = "false")
            /\ ret'.v = "false" => (UNCHANGED bvars /\ f.at \in {"locked", "state"})
      ]_vars

C1_Witness ==
    /\ AppIdle /\ ret.m = "close" /\ ret.v = "false"
    /\ ~locked /\ state = "CLOSING" /\ ret.entry = "CLOSING"

\* C2: once trip() has returned, the state is OPEN, locked is false and the
\* current is 0, whatever the simulation thread was doing.
C2_TripForcesOpen ==
    (AppIdle /\ ret.m = "trip") => (state = "OPEN" /\ ~locked /\ currentA = 0)

\* C5: a LOCKED_OPEN or LOCKED_CLOSED state implies the locked flag.
C5_LockedStateImpliesLocked ==
    state \in {"LOCKED_OPEN", "LOCKED_CLOSED"} => locked

\* C6: lock() entered in CLOSED leaves the breaker LOCKED_CLOSED, entered in
\* OPEN leaves it LOCKED_OPEN, with locked set, for as long as neither
\* unlock() nor trip() is called.
C6_LockHoldsPosition ==
    (AppIdle /\ ret.m = "lock" /\ ret.entry \in {"OPEN", "CLOSED"}
       /\ callback \notin ReentrantCalls)
    => (locked /\ state = (IF ret.entry = "OPEN" THEN "LOCKED_OPEN" ELSE "LOCKED_CLOSED"))

\* C7: every invocation of the callback reports a change of state that was
\* made and not yet reported, with its old and new state, and every change is
\* reported once: a change is unreported only while the call of
\* transitionToState that made it is on its way to the callback.
Stuck(t) == WaitsForMutex(t) /\ callbackMutex = t

C7_CallbackOncePerChange ==
    /\ ~cbError
    /\ (\A t \in Threads : ~InTransition(t) \/ Stuck(t)) => owed = EmptyBag

\* C9: a call made from inside the callback completes: no thread waits for
\* the callback mutex it holds itself.
C9_CallbackMayReenter ==
    \A t \in Threads : ~(WaitsForMutex(t) /\ callbackMutex = t)

----------------------------------------------------------------------------
\* Claims about the breaker in the test runs

\* C3: a whole simulation tick after setCurrent(c) with |c| > maxCurrentA has
\* returned, the breaker is OPEN and the current is 0.
C3_OverloadOpensWithinOneTick ==
    (AppIdle /\ ret.m = "setCurrent" /\ exceedsMaxCurrent(ret.c)
       /\ ticks.phase = "count" /\ ticks.n >= 1)
    => (state = "OPEN" /\ currentA = 0)

\* C4: when close() or open() has returned true and was the last call of the
\* run, the breaker eventually is in the state asked for, CLOSED, or OPEN with
\* the current 0.
C4_CommandEventuallyCompletes ==
    /\ (AppIdle /\ script.calls = <<>> /\ ret.m = "close" /\ ret.v = "true")
          ~> (state = "CLOSED")
    /\ (AppIdle /\ script.calls = <<>> /\ ret.m = "open" /\ ret.v = "true")
          ~> (state = "OPEN" /\ currentA = 0)

ExpectedCallbacks ==
    <<<<"OPEN", "CLOSING">>, <<"CLOSING", "CLOSED">>, <<"CLOSED", "OPEN">>>>

IsPrefix(s, t) == Len(s) <= Len(t) /\ s = SubSeq(t, 1, Len(s))

\* C8: in the run S4 the callback sees (OPEN, CLOSING), (CLOSING, CLOSED),
\* (CLOSED, OPEN) in that order and nothing else, and when the run is over
\* the breaker is OPEN with current 0.
C8_TripChainCallbackSequence ==
    script.name = "S4" =>
        /\ IsPrefix(cbLog, ExpectedCallbacks)
        /\ (AppIdle /\ ret.m = "setCurrent" /\ ~InTransition("sim"))
             => (cbLog = ExpectedCallbacks /\ state = "OPEN" /\ currentA = 0)

----------------------------------------------------------------------------
\* Claims about the publisher

\* C10: of two frames emitted one after the other for the same control block,
\* the second carries the sample count of the first plus 1 modulo 2^16.
C10_ConsecutiveSampleCounts ==
    \A cb \in SvcbNames :
        Len(pub.emitted[cb]) = 2 =>
            pub.emitted[cb][2] = (pub.emitted[cb][1] + 1) % CounterModulus

\* the subscriber alone: frames arrive, the callback runs, the user drains
\* and stops. The receive thread and the user's thread are scheduled fairly;
\* no frame has to arrive.
ReceiverInit ==
    /\ InitBreaker(DefaultDefinition)
    /\ script = AnyCalls
    /\ ticks = Ticks("off", 0)
    /\ InitPublisher(0, FALSE)
    \* the callbacks given to start(): IedClient's default one, which appends to
    \* receivedASDUs_, one of the user that records, one of the user that throws
    /\ \E cb \in {"store", "record", "throws"} : InitReceiver(cb)
    /\ InitRelay(DistanceProtectionSettings(TRUE, TRUE))
    /\ InitDifferential(DifferentialProtectionSettings(25))
    /\ InitCodec(DefaultSvcb, DefaultASDU, <<>>)
    /\ InitDefCall
    /\ InitUnits

RxThread == loop \/ invoke

RxUser == receiveSampledValues \/ stopReceiver

ReceiverNext ==
    \/ \E frame \in Frames : receive(frame)
    \/ RxThread
    \/ RxUser

ReceiverSpec ==
    ReceiverInit /\ [][ReceiverNext]_vars /\ WF_vars(RxThread) /\ WF_vars(RxUser)

\* the distance relay alone, called from one thread
RelayInit ==
    /\ InitBreaker(DefaultDefinition)
    /\ script = AnyCalls
    /\ ticks = Ticks("off", 0)
    /\ InitPublisher(0, FALSE)
    /\ InitReceiver("store")
    /\ \E zone1Enabled, directionForward \in BOOLEAN :
          InitRelay(DistanceProtectionSettings(zone1Enabled, directionForward))
    /\ InitDifferential(DifferentialProtectionSettings(25))
    /\ InitCodec(DefaultSvcb, DefaultASDU, <<>>)
    /\ InitDefCall
    /\ InitUnits

\* the measurements given to update: every current at the highest voltage,
\* and the lower voltage at the highest current
RelayInputs ==
    { in \in { Phasors(v, i, angle) :
                  \* arg V - arg I: inside the zones' angle, outside it but forward, and reverse
                  v \in VoltageMags, i \in CurrentMags, angle \in {-1000, 1200, 3142} } :
        \/ \A v \in VoltageMags : v <= in.v
        \/ \A i \in CurrentMags : i <= in.i }

RelayNext ==
    \* the advance of steady_clock between two calls of update
    \/ \E in \in RelayInputs, step \in {0, 1000} : update(in, step)
    \/ \E enabled \in BOOLEAN : setEnabled(enabled)
    \* what a registered trip callback does: it records the trip, it disables the
    \* relay, or it registers another callback with onTrip
    \/ \E cb \in {"record", "disable", "onTrip"} : onTrip(cb)

RelaySpec == RelayInit /\ [][RelayNext]_vars

\* the differential relay alone, called from one thread
DifferentialInit ==
    /\ InitBreaker(DefaultDefinition)
    /\ script = AnyCalls
    /\ ticks = Ticks("off", 0)
    /\ InitPublisher(0, FALSE)
    /\ InitReceiver("store")
    /\ InitRelay(DistanceProtectionSettings(TRUE, TRUE))
    \* the slopes of the characteristic, in percent
    /\ \E slopePercent \in {25, 50} :
          InitDifferential(DifferentialProtectionSettings(slopePercent))
    /\ InitCodec(DefaultSvcb, DefaultASDU, <<>>)
    /\ InitDefCall
    /\ InitUnits

DifferentialNext ==
    \/ \E c \in DifferentialCurrents : differentialUpdate(c[1], c[2])
    \/ \E enabled \in BOOLEAN : differentialSetEnabled(enabled)
    \* what a registered trip callback does: it records the trip, or it registers
    \* another callback with onTrip
    \/ \E cb \in {"record", "onTrip"} : differentialOnTrip(cb)

DifferentialSpec == DifferentialInit /\ [][DifferentialNext]_vars

\* the frame an earlier turn of the loop left in the buffer: a tagged frame
\* with a grandmaster identity, the longest a publisher sends
EarlierFrame ==
    writerData(SampledValueControlBlock(100, 4, 1, 1, Some(<<0, 1, 2, 3, 4, 5, 6, 7>>)),
               ASDU(<<83, 86, 48, 49>>, 7, Int32(5), Quality(0),
                    [hi |-> 395812036, lo |-> 5]))

\* a publisher and a subscriber on one link: one frame is sent and one
\* arrives
CodecInit ==
    /\ InitBreaker(DefaultDefinition)
    /\ script = AnyCalls
    /\ ticks = Ticks("off", 0)
    /\ InitPublisher(0, FALSE)
    /\ InitReceiver("store")
    /\ InitRelay(DistanceProtectionSettings(TRUE, TRUE))
    /\ InitDifferential(DifferentialProtectionSettings(25))
    \* svID "SV01" and the same with a space after it; the first value of
    \* the dataset int32 -5 and 5, uint32 7, float 1.0; quality good, and
    \* questionable with the test flag; the epoch and a time of the year 2023
    /\ \E svID \in {<<83, 86, 48, 49>>, <<83, 86, 48, 49, 32>>},
          smpCnt \in {0, 65535},
          first \in {Int32(-5), Int32(5), Uint32(7), Float(127, 0)},
          quality \in {Quality(0), Quality(2051)},
          timestamp \in {[hi |-> 0, lo |-> 0], [hi |-> 395812036, lo |-> 5]},
          vlanId \in {0, 100, 4096}, userPriority \in {4, 7},
          conf \in {<<1, 1>>, <<2, 2>>},
          gmIdentity \in {NullOpt, Some(<<0, 1, 2, 3, 4, 5, 6, 7>>)},
          buffer \in {<<>>, EarlierFrame} :
          InitCodec(SampledValueControlBlock(vlanId, userPriority, conf[1], conf[2],
                                             gmIdentity),
                    ASDU(svID, smpCnt, first, quality, timestamp), buffer)
    /\ InitDefCall
    /\ InitUnits

CodecNext ==
    \/ transmit
    \/ \E kind \in FrameKinds : capture(kind)

CodecSpec == CodecInit /\ [][CodecNext]_vars

\* a timestamp is made, converted to its TAI form and read back: seconds 0,
\* 1234567890 (the test's), 2^32 - 1 and 2^32 + 1; nanoseconds around 0, the
\* test's half second, values whose fraction is not whole, the last of the
\* second, and two the constructor marks invalid
PtpInit ==
    /\ InitBreaker(DefaultDefinition)
    /\ script = AnyCalls
    /\ ticks = Ticks("off", 0)
    /\ InitPublisher(0, FALSE)
    /\ InitReceiver("store")
    /\ InitRelay(DistanceProtectionSettings(TRUE, TRUE))
    /\ InitDifferential(DifferentialProtectionSettings(25))
    /\ InitCodec(DefaultSvcb, DefaultASDU, <<>>)
    /\ InitDefCall
    /\ \E seconds \in {<<0, 0, 0, 0, 0, 0, 0, 0>>, <<0, 0, 0, 0, 73, 150, 2, 210>>,
                       <<0, 0, 0, 0, 255, 255, 255, 255>>, <<0, 0, 0, 1, 0, 0, 0, 1>>},
          nanoseconds \in (0..MaxNanos) \cup {k * 1953125 : k \in 1..3}
                          \cup {123456789, 500000000, 999999937, 999999998, 999999999,
                                1000000000, 2000000001} :
          InitPtp(PtpTimestamp(seconds, nanoseconds))
    /\ InitWriter("types.h", <<>>)
    /\ InitBufferReader(<<>>)
    /\ InitControlBlock

PtpNext == convertToTai \/ convertFromTai

PtpSpec == PtpInit /\ [][PtpNext]_vars

\* a writer of either version with nothing, one byte (the test's), two bytes
\* (the test's) or four written, and one call of writeUint16At: at 0 (the
\* test's), up to MaxPos, at 10 (the test's) and at the last two positions a
\* size_t holds
WriterInit ==
    /\ InitBreaker(DefaultDefinition)
    /\ script = AnyCalls
    /\ ticks = Ticks("off", 0)
    /\ InitPublisher(0, FALSE)
    /\ InitReceiver("store")
    /\ InitRelay(DistanceProtectionSettings(TRUE, TRUE))
    /\ InitDifferential(DifferentialProtectionSettings(25))
    /\ InitCodec(DefaultSvcb, DefaultASDU, <<>>)
    /\ InitDefCall
    /\ InitPtp(PtpTimestamp(<<0, 0, 0, 0, 0, 0, 0, 0>>, 0))
    /\ \E header \in {"buffer.h", "types.h"},
          buffer \in {<<>>, <<1>>, <<0, 0>>, <<17, 34, 51, 68>>} :
          InitWriter(header, buffer)
    /\ InitBufferReader(<<>>)
    /\ InitControlBlock

WriterNext ==
    \E pos \in {SizeT(FALSE, n) : n \in (0..MaxPos) \cup {10}}
                  \cup {SizeT(TRUE, 1), SizeT(TRUE, 2)},
       val \in {0, 4660, 43981} :
        patch(pos, val)

WriterSpec == WriterInit /\ [][WriterNext]_vars

\* a reader over no byte, three bytes or nine, and up to MaxReads calls of
\* its reads, skip and seek: skips of 0 to 3 bytes, of more than any buffer
\* here, and of the two largest numbers a size_t holds
BufferReaderInit ==
    /\ InitBreaker(DefaultDefinition)
    /\ script = AnyCalls
    /\ ticks = Ticks("off", 0)
    /\ InitPublisher(0, FALSE)
    /\ InitReceiver("store")
    /\ InitRelay(DistanceProtectionSettings(TRUE, TRUE))
    /\ InitDifferential(DifferentialProtectionSettings(25))
    /\ InitCodec(DefaultSvcb, DefaultASDU, <<>>)
    /\ InitDefCall
    /\ InitPtp(PtpTimestamp(<<0, 0, 0, 0, 0, 0, 0, 0>>, 0))
    /\ InitWriter("types.h", <<>>)
    /\ \E data \in {<<>>, <<1, 2, 3>>, <<1, 2, 3, 4, 5, 6, 7, 8, 9>>} :
          InitBufferReader(data)
    /\ InitControlBlock

BufferReaderNext ==
    \/ \E width \in {1, 2, 4, 8} : readPrimitive(width)
    \/ \E bytes \in {SizeT(FALSE, n) : n \in (0..3) \cup {12}}
                        \cup {SizeT(TRUE, 1), SizeT(TRUE, 2)} : skip(bytes)
    \/ \E pos \in {SizeT(FALSE, n) : n \in (0..MaxPos) \cup {9, 10}}
                      \cup {SizeT(TRUE, 1)} : seek(pos)

BufferReaderSpec == BufferReaderInit /\ [][BufferReaderNext]_vars

\* a control block as made, and setUserPriority called with any uint8_t
ControlBlockInit ==
    /\ InitBreaker(DefaultDefinition)
    /\ script = AnyCalls
    /\ ticks = Ticks("off", 0)
    /\ InitPublisher(0, FALSE)
    /\ InitReceiver("store")
    /\ InitRelay(DistanceProtectionSettings(TRUE, TRUE))
    /\ InitDifferential(DifferentialProtectionSettings(25))
    /\ InitCodec(DefaultSvcb, DefaultASDU, <<>>)
    /\ InitDefCall
    /\ InitPtp(PtpTimestamp(<<0, 0, 0, 0, 0, 0, 0, 0>>, 0))
    /\ InitWriter("types.h", <<>>)
    /\ InitBufferReader(<<>>)
    /\ InitControlBlock

ControlBlockNext == \E priority \in 0..255 : setUserPriority(priority)

ControlBlockSpec == ControlBlockInit /\ [][ControlBlockNext]_vars

\* a breaker made with any definition, then given others
DefinitionInit ==
    /\ \E def \in Definitions :
          /\ InitBreaker(def)
          /\ defCall = constructor(def)
    /\ script = AnyCalls
    /\ ticks = Ticks("off", 0)
    /\ InitPublisher(0, FALSE)
    /\ InitReceiver("store")
    /\ InitRelay(DistanceProtectionSettings(TRUE, TRUE))
    /\ InitDifferential(DifferentialProtectionSettings(25))
    /\ InitCodec(DefaultSvcb, DefaultASDU, <<>>)
    /\ InitUnits

DefinitionNext == \E def \in Definitions : setDefinition(def)

DefinitionSpec == DefinitionInit /\ [][DefinitionNext]_vars

\* C11: a call of updateSampledValue ends by returning to its caller, sent or
\* logged, never with an exception and never with the process aborted, and a
\* valid update made while the sender works is sent, whatever failed before.
C11_UpdateNeverRaises ==
    /\ pub.outcome \notin {"threw", "aborted"}
    /\ ~pub.lost

\* C12: a callback that throws while handling one frame does not end the
\* receive loop: the process lives on and the thread stays in its loop.
C12_ThrowingCallbackKeepsLoop ==
    /\ rx.process = "alive"
    /\ (rx.callback = "throws" /\ rx.running) => rx.pc # "done"

\* C13: once stop() has been called on the subscriber it returns, the receive
\* thread joined, whether or not another frame arrives.
C13_StopTerminates ==
    (rx.user = "stop.join" /\ rx.callback # "throws") ~> (rx.user = "idle")

\* C14: when an IedServer whose cadence thread is running is destroyed, the
\* destruction completes with the thread stopped and joined; the process is
\* not ended by the destructor of a joinable std::thread.
C14_DestructionJoinsWorker ==
    pub.process \in {"destroyed", "unjoined"} =>
        /\ pub.process = "destroyed"
        /\ pub.threads = 0
        /\ ~pub.running

\* C15: whatever the calls of start() and stop() and however they interleave,
\* no second cadence thread is started while one exists, and when no call is
\* in progress running_ is true exactly while the cadence thread exists, so
\* that after stop() no cadence thread remains.
C15_AtMostOneCadenceThread ==
    /\ pub.process # "reassigned"
    /\ pub.threads <= 1
    /\ (PubAlive /\ \A c \in Callers : pub.pc[c] = "idle") =>
          /\ pub.running <=> pub.threads = 1
          /\ pub.running <=> pub.joinable

\* what the callback has been given, without the frame being handled now
Handled == IF rx.pc = "callback" THEN SubSeq(rx.parsed, 1, Len(rx.parsed) - 1)
                                 ELSE rx.parsed

\* C16: the callback has been invoked exactly once, with the parsed ASDU, for
\* every received frame the parser yielded an ASDU for, in arrival order; the
\* frame being handled is the next one the callback is given.
C16_OneCallbackPerParsedFrame ==
    /\ rx.delivered = Handled
    /\ \A i, j \in 1..Len(rx.delivered) : i < j => rx.delivered[i].at < rx.delivered[j].at
    /\ rx.pc = "callback" =>
          /\ rx.parsed # <<>>
          /\ rx.parsed[Len(rx.parsed)] = [asdu |-> value(rx.asduOpt), at |-> rx.arrived]

C16_Witness ==
    /\ Len(rx.delivered) = 2
    /\ rx.delivered[1].asdu # rx.delivered[2].asdu

\* C17: the step that receives a frame failing the parse neither invokes the
\* callback nor ends the process, and leaves the thread at the head of its
\* loop, where it goes on to the next frame while running.
C17_FailedParseDropsFrame ==
    [][(rx.pc = "recv" /\ rx'.arrived = rx.arrived + 1
          /\ (rx'.len < 14 \/ ~parseASDU(rx'.buffer, rx'.len).has))
       => /\ rx'.delivered = rx.delivered
          /\ rx'.pc = "check"
          /\ rx'.process = "alive"]_vars

\* a valid frame was delivered after a frame had been dropped
C17_Witness ==
    /\ rx.dropped > 0
    /\ rx.delivered # <<>>
    /\ rx.delivered[Len(rx.delivered)].at > rx.dropped

\* C18: with the default callback, the ASDUs returned by the calls of
\* receiveSampledValues so far, then those of the call in progress, then those
\* still in the vector, are the ASDUs appended, each once and in the order of
\* their arrival; and no call has returned leaving an element in the vector.
C18_DrainReturnsEachOnce ==
    rx.callback = "store" =>
        /\ rx.returned \o rx.result \o rx.receivedASDUs = rx.appended
        /\ rx.left = 0

\* two calls have returned ASDUs, the second one appended while the first ran
C18_Witness ==
    /\ rx.callback = "store"
    /\ Len(rx.returned) = 2
    /\ rx.drains = 2
    /\ rx.user = "idle"

\* the last call of update was made with |V| or |I| below its threshold
BelowThreshold ==
    /\ relay.updates > 0
    /\ \/ relay.last.in.v < relay.settings.voltageThresholdV
       \/ relay.last.in.i < relay.settings.currentThresholdA

\* C19: after an update with |V| below voltageThresholdV or |I| below
\* currentThresholdA the result has no zone trip, no trip callback was invoked
\* and every zone pickup flag is clear, whatever the impedance and whatever
\* pickup was in progress.
C19_BelowThresholdClearsPickup ==
    BelowThreshold =>
        /\ relay.result = NoTrip
        /\ relay.invoked = 0
        /\ \A k \in Zones : ~relay.active[k]

\* V/I lies inside zone 1: |Z| <= reach and the angle within +-angleRad
InsideZone1 ==
    /\ relay.last.in.v * PerAmpere <= relay.settings.zone[1].reachOhm * relay.last.in.i
    /\ Abs(relay.last.in.angle) <= relay.settings.zone[1].angleRad

DirectionMatches ==
    IF relay.settings.directionForward THEN RealPositive(relay.last.in.angle)
                                       ELSE RealNegative(relay.last.in.angle)

\* the first call of update was made on an enabled relay, above both
\* thresholds, with V/I inside zone 1 in the relay's direction, zone 1 delay 0
FirstUpdateInZone1 ==
    /\ relay.updates = 1
    /\ relay.last.enabled
    /\ relay.last.in.v >= relay.settings.voltageThresholdV
    /\ relay.last.in.i >= relay.settings.currentThresholdA
    /\ InsideZone1
    /\ DirectionMatches
    /\ relay.settings.zone[1].delay = 0

\* C20 (as stated): under FirstUpdateInZone1 the first update returns
\* zone1Trip = true and invokes the trip callback.
C20_FirstUpdateTripsZone1 ==
    FirstUpdateInZone1 =>
        /\ relay.result[1]
        /\ relay.last.callback # "none" => relay.invoked >= 1

\* C20 (amended): under FirstUpdateInZone1 and with zone 1 enabled in the
\* settings, the first update returns zone1Trip = true and invokes the trip
\* callback if one is registered.
C20_FirstUpdateTripsEnabledZone1 ==
    (FirstUpdateInZone1 /\ relay.settings.zone[1].enabled) =>
        /\ relay.result[1]
        /\ relay.last.callback # "none" => relay.invoked >= 1

\* the first update tripped zone 1 at its reach and called the callback
C20_Witness ==
    /\ FirstUpdateInZone1
    /\ relay.settings.zone[1].enabled
    /\ relay.last.in.v * PerAmpere = relay.settings.zone[1].reachOhm * relay.last.in.i
    /\ relay.result[1]
    /\ relay.invoked >= 1

\* C21: a zone with delay d > 0 that trips in an update has had the impedance
\* inside it on every update since its pickup started, in an earlier update,
\* and at least d before.
C21_DelayedZoneTripsAfterDelay ==
    \A k \in Zones :
        (relay.updates > 0 /\ relay.result[k] /\ relay.settings.zone[k].delay > 0) =>
            /\ relay.inside[k].in
            /\ relay.now - relay.inside[k].at >= relay.settings.zone[k].delay

\* C22: a trip callback that calls back into the relay does not leave the
\* calling thread waiting for callbackMutex_, nor make the call fail.
C22_CallbackMayCallRelay ==
    relay.caller = "returned"

\* the last update of the differential relay returned
DifferentialReturned == diff.updates > 0

\* C23: an update made while the relay is enabled with |I1 - I2| at or above
\* instantaneousThresholdA returns trip = true and instantaneous = true, and
\* the trip callback, if one is registered, was invoked during that call.
C23_InstantaneousTrip ==
    (/\ DifferentialReturned
     /\ diff.last.enabled
     /\ Abs(diff.last.i1 - diff.last.i2) >= diff.settings.instantaneousThresholdA) =>
        /\ diff.result = [trip |-> TRUE, instantaneous |-> TRUE]
        /\ diff.last.callback # "none" => diff.invoked = 1

\* the first update was made at exactly the instantaneous threshold
C23_Witness ==
    /\ diff.updates = 1
    /\ diff.last.enabled
    /\ Abs(diff.last.i1 - diff.last.i2) = diff.settings.instantaneousThresholdA
    /\ diff.result.instantaneous
    /\ diff.invoked = 1

\* the characteristic of the statement: operating >= minOperatingCurrentA and
\* (restraint < minRestraintCurrentA or operating >= restraint * slope / 100)
Characteristic ==
    LET operating == Abs(diff.last.i1 - diff.last.i2)
        restraint2 == Abs(diff.last.i1 + diff.last.i2)
    IN  /\ operating >= diff.settings.minOperatingCurrentA
        /\ \/ restraint2 < 2 * diff.settings.minRestraintCurrentA
           \/ 200 * operating >= restraint2 * diff.settings.slopePercent

BelowInstantaneous ==
    /\ DifferentialReturned
    /\ Abs(diff.last.i1 - diff.last.i2) < diff.settings.instantaneousThresholdA

\* C24 (as stated): with the operating current below the instantaneous
\* threshold, update returns trip = true exactly when Characteristic holds.
C24_TripIffCharacteristic ==
    BelowInstantaneous => (diff.result.trip <=> Characteristic)

\* C24 (amended): with the relay enabled and the operating current below the
\* instantaneous threshold, update returns trip = true exactly when
\* Characteristic holds; a disabled relay does not trip.
C24_EnabledTripIffCharacteristic ==
    BelowInstantaneous =>
        /\ diff.last.enabled => (diff.result.trip <=> Characteristic)
        /\ ~diff.last.enabled => ~diff.result.trip

\* the relay tripped below its slope because the restraint was below its minimum
C24_Witness ==
    LET operating == Abs(diff.last.i1 - diff.last.i2)
        restraint2 == Abs(diff.last.i1 + diff.last.i2)
    IN  /\ BelowInstantaneous
        /\ diff.last.enabled
        /\ diff.result.trip
        /\ restraint2 < 2 * diff.settings.minRestraintCurrentA
        /\ 200 * operating < restraint2 * diff.settings.slopePercent


\* the fields of an ASDU that the wire carries
SameASDU(parsed, asdu) ==
    /\ parsed.svID = asdu.svID
    /\ parsed.smpCnt = asdu.smpCnt
    /\ parsed.confRev = asdu.confRev
    /\ parsed.smpSynch = asdu.smpSynch
    /\ parsed.dataSet = asdu.dataSet
    /\ parsed.timestamp = asdu.timestamp

\* C25: for every valid ASDU and every control block, the parser yields from
\* the frame the encoder wrote an ASDU equal to the original: svID, smpCnt,
\* confRev, smpSynch, the 8 values with type and quality, timestamp.
C25_ParseEncodeRoundTrip ==
    (/\ codec.pc = "parsed"
     /\ codec.kind = "whole"
     /\ isValid([svID |-> codec.asdu.svID, size |-> Len(codec.asdu.dataSet)])) =>
        /\ codec.asduOpt.has
        /\ SameASDU(codec.asduOpt.value, codec.asdu)


\* what a frame holds in its own bytes: at least 22 bytes, the EtherType of
\* sampled values after an optional tag, one to eight ASDUs, an svID of two
\* characters or more, and the eight values of the dataset
FrameHoldsASDU(frame) ==
    LET base == IF Len(frame) >= EtherTypeEnd /\ readUint16(frame, 12) = VLAN_TAG_TPID
                  THEN EtherTypeEnd + 4 ELSE EtherTypeEnd
    IN  /\ Len(frame) >= MIN_SV_FRAME_SIZE
        /\ Len(frame) >= base
        /\ readUint16(frame, base - 2) = SV_ETHER_TYPE
        /\ Len(frame) >= base + 9
        /\ readUint8(frame, base + 8) \in 1..MAX_ASDUS_PER_MESSAGE
        /\ Len(trimSpaces(readFixedString(frame, base + 9, 64))) >= 2
        /\ Len(frame) >= base + 80 + 8 * VALUES_PER_ASDU

\* C26: the parser yields an ASDU only for a frame of 22 bytes or more whose
\* EtherType, after an optional 802.1Q tag, is 0x88BA, whose numASDUs is in
\* 1..8, whose svID has two characters or more and which has 8 dataset
\* values; for every other frame it returns absent, without raising.
C26_ParserYieldsOnlyForWellFormedFrame ==
    (codec.pc = "parsed" /\ codec.asduOpt.has) => FrameHoldsASDU(codec.frame)

\* C27: a frame that ends after its dataset, with fewer than 8 bytes left
\* for the timestamp, still yields its ASDU, the timestamp being the wall
\* clock at the time of parsing.
C27_MissingTimestampIsNow ==
    (codec.pc = "parsed" /\ codec.kind = "noTimestamp") =>
        /\ codec.asduOpt.has
        /\ codec.asduOpt.value.timestamp = WallClock

\* C28: the frame sent carries an 802.1Q tag, TPID 0x8100 and TCI
\* (userPriority << 13) | (vlanId & 0x0FFF), exactly when the control block's
\* vlanId is above 0, and the parser yields for it the ASDU it yields for the
\* same frame sent without the tag.
C28_VlanTagEmittedAndParsed ==
    /\ codec.pc # "idle" =>
          IF codec.svcb.vlanId > 0
              THEN /\ readUint16(codec.wire, 12) = VLAN_TAG_TPID
                   /\ readUint16(codec.wire, 14) =
                          ((codec.svcb.userPriority * 8192) % 65536)
                              + (codec.svcb.vlanId % 4096)
                   /\ readUint16(codec.wire, 16) = SV_ETHER_TYPE
              ELSE readUint16(codec.wire, 12) = SV_ETHER_TYPE
    /\ (codec.pc = "parsed" /\ codec.kind = "whole") =>
          LET untagged == writerData([codec.svcb EXCEPT !.vlanId = 0], codec.asdu)
          IN  codec.asduOpt =
                  parseFrame(recvBytes(codec.stale, untagged), Len(untagged), WallClock)

C28_Witness ==
    /\ codec.pc = "parsed"
    /\ codec.kind = "whole"
    /\ codec.svcb.vlanId = 100
    /\ codec.svcb.userPriority = 7
    /\ codec.asduOpt.has
    /\ codec.asduOpt.value.smpCnt = 65535


\* a definition with a rating that must be positive at zero or below, or a
\* rating that must not be negative below zero
ViolatesConstraint(def) ==
    \/ \E rating \in DOMAIN DefaultDefinition \ {"resistanceMilliOhm", "arcVoltageV", "arcResistanceMilliOhm"} :
          def[rating] <= 0
    \/ \E rating \in {"resistanceMilliOhm", "arcVoltageV", "arcResistanceMilliOhm"} :
          def[rating] < 0

\* C29: a BreakerDefinition that violates a positivity or non-negativity
\* constraint on any rating, arcDurationSec included, is rejected by isValid,
\* by the constructor and by setDefinition, and the rejected setDefinition
\* leaves the definition and the state of the breaker as they were.
C29_InvalidDefinitionRejected ==
    ViolatesConstraint(defCall.given) =>
        /\ ~BreakerDefinition_isValid(defCall.given)
        /\ defCall.call = "constructor" => ~defCall.constructed
        /\ defCall.call = "setDefinition" =>
              /\ defCall.outcome = "invalid_argument"
              /\ definition = defCall.before
              /\ state = defCall.stateBefore


\* thread t takes the step state_.exchange(newState) of the
\* transitionToState that m called after its checks
ExchangesFor(t, m) ==
    /\ Len(stack[t]) >= 2
    /\ In(t, "transitionToState", "exchange")
    /\ stack[t][Len(stack[t]) - 1].m = m
    /\ stack[t][Len(stack[t]) - 1].at = "target"
    /\ stack'[t] # stack[t]

\* C30: the state becomes OPENING only by an open() that returns true and
\* CLOSING only by a close() that returns true: the step that makes it so is
\* the exchange of that call, and the call returns true exactly when it got
\* that far.  lock(), unlock(), trip(), setCurrent() and the simulation
\* thread never make the state OPENING or CLOSING.
C30_TransitionalOnlyByCommand ==
    [][/\ (state' = "OPENING" /\ state # "OPENING") =>
              \E t \in Threads : ExchangesFor(t, "open")
       /\ (state' = "CLOSING" /\ state # "CLOSING") =>
              \E t \in Threads : ExchangesFor(t, "close")
       /\ \A m \in {"open", "close"} :
              (ret' # ret /\ ret'.m = m) =>
                  (ret'.v = "true" <=> In("app", m, "start"))]_vars

C30_Witness ==
    /\ ret.m = "open"
    /\ ret.v = "true"
    /\ ret.entry = "CLOSED"
    /\ state = "OPENING"
    /\ stack["app"] = <<>>


----------------------------------------------------------------------------
\* C31: for every timestamp (s, ns) with ns < 10^9 and s < 2^32,
\* fromTai(toTai(ts)) is present, has the same seconds, and its nanoseconds
\* differ from ns by at most 1.
C31_TaiRoundTrip ==
    (/\ ptp.pc = "reconstructed"
     /\ ptp.ts.nanoseconds < NanosPerSecond
     /\ SubSeq(ptp.ts.seconds, 1, 4) = <<0, 0, 0, 0>>) =>
        /\ ptp.back.has
        /\ ptp.back.value.seconds = ptp.ts.seconds
        /\ Abs(ptp.back.value.nanoseconds - ptp.ts.nanoseconds) <= 1

\* the last nanosecond of second 2^32 - 1 came back one nanosecond earlier
C31_Witness ==
    /\ ptp.pc = "reconstructed"
    /\ ptp.ts.seconds = <<0, 0, 0, 0, 255, 255, 255, 255>>
    /\ ptp.ts.nanoseconds = 999999999
    /\ ptp.back.has
    /\ ptp.back.value.nanoseconds = 999999998


----------------------------------------------------------------------------
\* C32: writeUint16At(pos, v) fails with an out-of-range error whenever
\* pos + 2 > size and then leaves the buffer unchanged; otherwise it
\* overwrites exactly bytes pos and pos + 1 with v in big-endian order and
\* changes neither the size nor any other byte.
C32_WriteUint16AtPatchesOrFails ==
    writer.pc = "patched" =>
        IF writer.pos.wrap \/ writer.pos.n + 2 > Len(writer.before)
            THEN writer.outcome = "out_of_range" /\ writer.buffer = writer.before
            ELSE /\ writer.outcome = "returned"
                 /\ Len(writer.buffer) = Len(writer.before)
                 /\ \A i \in 1..Len(writer.before) :
                        writer.buffer[i] = IF i = writer.pos.n + 1 THEN writer.val \div 256
                                           ELSE IF i = writer.pos.n + 2 THEN writer.val % 256
                                           ELSE writer.before[i]


----------------------------------------------------------------------------
\* C33: for any sequence of read, skip and seek operations on a BufferReader
\* the cursor stays within [0, length]: a primitive read with too few bytes
\* remaining returns 0 without advancing, skip(n) moves to
\* min(pos + n, length), and seek(pos) with pos > length fails leaving the
\* cursor unchanged.
C33_CursorWithinBuffer ==
    LET length == Len(reader.data)
        last == reader.last
    IN  /\ reader.pos \in 0..length
        /\ (last.op = "read" /\ last.before + last.arg.n > length) =>
               /\ reader.pos = last.before
               /\ \A i \in DOMAIN last.val : last.val[i] = 0
        /\ last.op = "skip" =>
               reader.pos = IF last.arg.wrap THEN length
                            ELSE Min(last.before + last.arg.n, length)
        /\ (last.op = "seek" /\ (last.arg.wrap \/ last.arg.n > length)) =>
               /\ last.outcome = "out_of_range"
               /\ reader.pos = last.before


----------------------------------------------------------------------------
\* C34: setUserPriority(p) stores p for every p in 0..7 (0 included) and
\* leaves the stored priority unchanged for every p > 7.
C34_PriorityZeroToSevenStored ==
    controlBlock.calls > 0 =>
        controlBlock.userPriority = IF controlBlock.given \in 0..7
                                      THEN controlBlock.given
                                      ELSE controlBlock.before


----------------------------------------------------------------------------
\* the simulation thread's exchange that ends a transition: the state is
\* OPENING or CLOSING and updateState's transitionToState replaces it
Completes(from) ==
    /\ In("sim", "transitionToState", "exchange")
    /\ stack'["sim"] # stack["sim"]
    /\ state = from
    /\ state' # from

\* C35: a transition started by an open() (resp. close()) call that returned
\* true never completes to a terminal state other than OPEN (resp. CLOSED),
\* and never completes before openTimeSec (resp. closeTimeSec) has elapsed
\* since that call, whatever the interleaving of the call with the
\* simulation thread.
C35_TransitionCompletesToTargetInTime ==
    [][/\ Completes("OPENING") =>
              (state' = "OPEN" /\ ticks.call >= definition.openTimeMs)
       /\ Completes("CLOSING") =>
              (state' = "CLOSED" /\ ticks.call >= definition.closeTimeMs)]_vars


\* C36: once trip() has returned and the breaker is OPEN with current 0, it
\* stays so while the application makes no further call: no step of the
\* simulation thread, whenever its tick started, moves the state away from
\* OPEN or stores a current other than 0.
C36_TripHoldsOpen ==
    [][(AppIdle /\ ret.m = "trip" /\ state = "OPEN" /\ currentA = 0 /\ AppIdle')
          => (state' = "OPEN" /\ currentA' = 0)]_vars


\* C37: whenever no call of the application is under way, the breaker is at
\* rest (the state neither OPENING nor CLOSING) and the locked flag is set,
\* the state is LOCKED_OPEN or LOCKED_CLOSED.
C37_LockedAtRestIsLockedState ==
    (AppIdle /\ locked /\ state \notin {"OPENING", "CLOSING"})
        => state \in {"LOCKED_OPEN", "LOCKED_CLOSED"}


\* C38: the pairs the state-change callback received form a chain in the
\* order of delivery: the old state of each invocation is the new state of
\* the invocation before it.
C38_CallbackPairsChain ==
    \A i \in 2..Len(cbLog) : cbLog[i][1] = cbLog[i - 1][2]


\* C39: a call of updateSampledValue that emits no frame leaves the sample
\* counter as it was.
C39_NoFrameNoCount ==
    [][(pub'.calls = pub.calls + 1 /\ pub'.emitted = pub.emitted)
          => pub'.smpCnt = pub.smpCnt]_vars


\* C40: what the parser yields for a received frame comes from that frame:
\* no ASDU parsed from the n-th frame carries the sample count, the dataset
\* or the timestamp of a frame that arrived before it.
C40_ParseUsesOnlyTheFrame ==
    \A i \in 1..Len(rx.parsed) :
        LET asdu == rx.parsed[i].asdu
            earlier == 1..(rx.parsed[i].at - 1)
        IN  /\ asdu.smpCnt \notin earlier
            /\ asdu.dataSet \notin earlier
            /\ asdu.timestamp \notin earlier

====
